---- MODULE Spec2Model ----
(***************************************************************************)
(* Model of the distributed mesh construction of the FEM solver            *)
(* (Common/src/fem_geometry_structure.cpp): the constructor                *)
(* CMeshFEM::CMeshFEM (ownership transfer, local assembly, halo round      *)
(* trip, periodic reconciliation) and CMeshFEM_DG::SetSendReceive, run by  *)
(* NRank ranks that exchange messages.                                     *)
(*                                                                         *)
(* Real coordinates are represented as integers in units of 1e-4 of a      *)
(* grid edge, so that the matching tolerance 1.e-4*lenScale is exact.      *)
(***************************************************************************)
EXTENDS Integers, Sequences, FiniteSets, TLC

(* ------------------------------------------------------------------------ *)
(* Bounds of the model.                                                      *)
(* ------------------------------------------------------------------------ *)
NRank == 2
MaxElem == 3

(* ------------------------------------------------------------------------ *)
(* Program constants.                                                        *)
(* ------------------------------------------------------------------------ *)
LINE == 3
QUADRILATERAL == 9
SHRT_MAX == 32767
ULONG_MAX == -1
TolDenominator == 10000
nDim == 2
nMarker == 3

VARIABLES
  geometry,        \* the source partitioned mesh (input, read only)
  HAVE_MPI,        \* the build: message passing, or the sequential #else code
  pc,              \* position of every rank in the pipeline
  aborted,         \* MPI_Abort has been called
  mpiEager,        \* the MPI library buffers sends (completes them unmatched)
  network,         \* messages sent and not yet received
  shortSendBuf, longSendBuf, doubleSendBuf,
  shortRecvBuf, longRecvBuf, doubleRecvBuf,
  rankToIndCommBuf, nRankRecv, sourceRank,
  globalElemID, haloElements, volElem, meshPoints, boundaries,
  mapGlobalPointIDToInd, nElem_Bound,
  ranksComm, longBuf, DOFsSend, DOFsReceive,
  schedPos,        \* index i of the receive loop of SetSendReceive
  storeLog,        \* history: the volElem indices written by halo responses
  notFound,        \* history: the keys a map lookup did not find
  requestSizes,    \* history: the sizes of the request buffers answered
  periodicLoop     \* the matching loop of one periodic marker, run on its own

commVars == <<shortSendBuf, longSendBuf, doubleSendBuf,
              shortRecvBuf, longRecvBuf, doubleRecvBuf,
              rankToIndCommBuf, nRankRecv, sourceRank>>
meshVars == <<globalElemID, haloElements, volElem, meshPoints, boundaries,
              mapGlobalPointIDToInd, nElem_Bound, storeLog, notFound,
              requestSizes>>
schedVars == <<ranksComm, longBuf, DOFsSend, DOFsReceive, schedPos>>
vars == <<periodicLoop, geometry, HAVE_MPI, mpiEager, pc, aborted, network,
          commVars, meshVars, schedVars>>

(* The ranks of the run: SU2_MPI::GetSize() of them, SINGLE_NODE without    *)
(* message passing.                                                         *)
nRank == geometry.nRank
Ranks == 0 .. (nRank - 1)

(* ------------------------------------------------------------------------ *)
(* Sequences: the std:: algorithms the code uses.                            *)
(* ------------------------------------------------------------------------ *)
Range(s) == {s[i] : i \in 1 .. Len(s)}

(* The sequence s, enumerated once (TLC otherwise evaluates a function    *)
(* expression anew at every application).                                  *)
Vec(s) == s \o <<>>

RECURSIVE Concat(_)
Concat(ss) == IF ss = <<>> THEN <<>> ELSE Head(ss) \o Concat(Tail(ss))

RECURSIVE SumSeq(_)
SumSeq(s) == IF s = <<>> THEN 0 ELSE Head(s) + SumSeq(Tail(s))

(* std::sort, for a comparator that is a strict weak order: entry i goes   *)
(* behind the entries less than it and the equivalent entries before it.   *)
SortBy(s, Less(_, _)) ==
  LET v == Vec(s)
      n == Len(v)
      pos == Vec([i \in 1 .. n |->
                1 + Cardinality({j \in 1 .. n :
                      Less(v[j], v[i]) \/ (~Less(v[i], v[j]) /\ j < i)})])
  IN  Vec([k \in 1 .. n |-> v[CHOOSE i \in 1 .. n : pos[i] = k]])

(* The entries of s at the positions in keep, in order.                    *)
SubSeqAt(s, keep) ==
  LET v == Vec(s)
      at == {i \in keep : TRUE}
  IN  Vec([k \in 1 .. Cardinality(at) |->
             v[CHOOSE i \in at : Cardinality({j \in at : j <= i}) = k]])

(* std::unique followed by erase: of every run of consecutive equal        *)
(* entries the first one is kept.                                          *)
UniqueBy(s, Eq(_, _)) ==
  LET v == Vec(s)
  IN  SubSeqAt(v, {i \in 1 .. Len(v) : i = 1 \/ ~Eq(v[i - 1], v[i])})

(* std::lower_bound: the bisection of the standard library. Positions are *)
(* 1-based; the result is Len(s)+1 when the search runs off the end.       *)
LowerBoundBy(s, x, Less(_, _)) ==
  LET bisect[first \in 1 .. Len(s) + 1, count \in 0 .. Len(s)] ==
        IF count = 0 THEN first
        ELSE LET step == count \div 2
                 it == first + step
             IN  IF Less(s[it], x) THEN bisect[it + 1, count - (step + 1)]
                 ELSE bisect[first, step]
  IN  bisect[1, Len(s)]

(* std::binary_search: the entry at the lower bound is not greater than x. *)
BinarySearchBy(s, x, Less(_, _)) ==
  LET lb == LowerBoundBy(s, x, Less)
  IN  lb <= Len(s) /\ ~Less(x, s[lb])

IntLess(a, b) == a < b
IntEq(a, b) == a = b

(* Entry k of a vector, counted from 0 as in the code.                     *)
At(buf, k) == buf[k + 1]

(* unsignedLong2T: a pair of unsigned longs, ordered by long0, then long1.  *)
Long2(a, b) == [long0 |-> a, long1 |-> b]
Long2Less(p, q) == p.long0 < q.long0 \/ (p.long0 = q.long0 /\ p.long1 < q.long1)
Long2Eq(p, q) == p.long0 = q.long0 /\ p.long1 = q.long1

(* ------------------------------------------------------------------------ *)
(* The source partitioned mesh (CGeometry) and the configuration (CConfig), *)
(* read through their accessors. The meshes are rows of nElem quadrilateral *)
(* elements of grid degree 1, element g between the node columns g and g+1, *)
(* either with an inlet and an outlet or closed into a ring by the periodic *)
(* markers 0 (left) and 1 (right); marker 2 holds the walls.                *)
(* ------------------------------------------------------------------------ *)
EdgeLen == TolDenominator
nElemGlobal == geometry.nElem
nCol == nElemGlobal + 1
ElemIDs == 0 .. (nElemGlobal - 1)
starting_node(r) == geometry.starting_node[r]
ending_node(r) == geometry.starting_node[r + 1]
npoint_procs(r) == ending_node(r) - starting_node(r)
GetGlobal_nPoint == 2 * nCol

(* geometry->elem[i] of rank r is the element with global ID starting_node[r]+i. *)
local_elem_Or(r) == npoint_procs(r)
LocalElems(r) == Vec([i \in 1 .. local_elem_Or(r) |-> starting_node(r) + i - 1])

GetColor(g) == geometry.color[g]
GetVTK_Type(g) == QUADRILATERAL
GetNPolyGrid(g) == 1
GetNPolySol(g) == g % 2
GetNDOFsGrid(g) == 4
GetNDOFsSol(g) == (GetNPolySol(g) + 1) * (GetNPolySol(g) + 1)
GetnFaces(g) == 4
GetJacobianConsideredConstant(g) == 1
GetJacobianConstantFace(g, k) == 1
GetGlobalElemID(g) == g
GetGlobalOffsetDOFsSol(g) == SumSeq([h \in 1 .. g |-> GetNDOFsSol(h - 1)])
GetNode(g, j) == (j \div 2) * nCol + g + (j % 2)

(* Faces: 0 bottom, 1 right, 2 top, 3 left. *)
GetNeighbor_Elements(g, k) ==
  CASE k = 1 -> IF g + 1 < nElemGlobal THEN g + 1
                ELSE IF geometry.periodic THEN 0 ELSE -1
    [] k = 3 -> IF g > 0 THEN g - 1
                ELSE IF geometry.periodic THEN nElemGlobal - 1 ELSE -1
    [] OTHER -> -1
GetPeriodicIndex(g, k) ==
  CASE k = 1 /\ g + 1 = nElemGlobal /\ geometry.periodic -> 1
    [] k = 3 /\ g = 0 /\ geometry.periodic -> 0
    [] OTHER -> -1

(* geometry->node of rank r: the nodes of its elements, by global index,   *)
(* without the node the input lacks (lostNode, -1 when it lacks none).     *)
LocalNodes(r) ==
  SelectSeq(UniqueBy(SortBy(
              Concat([i \in 1 .. local_elem_Or(r) |->
                        [j \in 1 .. 4 |-> GetNode(LocalElems(r)[i], j - 1)]]),
              IntLess), IntEq),
            LAMBDA node : node # geometry.lostNode)
GetCoord(node, l) ==
  IF l = 0 THEN (node % nCol) * EdgeLen ELSE (node \div nCol) * EdgeLen

(* The boundary faces of the whole mesh, per marker. In a malformed input   *)
(* (strayFaceNode) the first face of the last marker names a node that is  *)
(* not a node of the mesh.                                                  *)
SurfFace(dom, id, n0, n1) ==
  [VTK_Type |-> LINE, nPolyGrid |-> 1, nDOFsGrid |-> 2,
   DomainElement |-> dom, GlobalElemID |-> id, nodes |-> <<n0, n1>>]
GlobalBound(iMarker) ==
  CASE iMarker = 0 -> <<SurfFace(0, 0, 0, nCol)>>
    [] iMarker = 1 ->
         <<SurfFace(nElemGlobal - 1, 0, nCol - 1, 2 * nCol - 1)>>
    [] OTHER ->
         [i \in 1 .. 2 * nElemGlobal |->
            IF i <= nElemGlobal
            THEN SurfFace(i - 1, i - 1,
                          IF geometry.strayFaceNode /\ i = 1 THEN 2 * nCol ELSE i - 1, i)
            ELSE SurfFace(i - nElemGlobal - 1, i - 1,
                          nCol + i - nElemGlobal - 1, nCol + i - nElemGlobal)]
(* geometry->bound[iMarker] of rank r: the faces of its own elements.      *)
bound(r, iMarker) ==
  SelectSeq(GlobalBound(iMarker),
            LAMBDA f : starting_node(r) <= f.DomainElement
                       /\ f.DomainElement < ending_node(r))

(* The periodic transformation of a marker: no rotation, the translation   *)
(* to the donor side of the ring.                                          *)
GetPeriodicRotCenter(iMarker) == <<0, 0, 0>>
GetPeriodicRotAngles(iMarker) == <<0, 0, 0>>
GetPeriodicTranslation(iMarker) ==
  CASE iMarker = 0 -> <<nElemGlobal * EdgeLen, 0, 0>>
    [] iMarker = 1 -> <<0 - nElemGlobal * EdgeLen, 0, 0>>
    [] OTHER -> <<0, 0, 0>>

(* ------------------------------------------------------------------------ *)
(* Messages. network[<<src, dst, tag>>] is the queue of the messages sent   *)
(* from src to dst with that tag and not yet received (MPI delivers the     *)
(* messages of one source, destination and tag in the order sent). round    *)
(* is history: the exchange that sent the message.                          *)
(* ------------------------------------------------------------------------ *)
Tags == 0 .. (nRank + 2)
Channels == Ranks \X Ranks \X Tags
Msg(data, round) == [data |-> data, round |-> round]

RECURSIVE SendAll(_, _)
SendAll(net, msgs) ==
  IF msgs = <<>> THEN net
  ELSE LET m == Head(msgs)
       IN  SendAll([net EXCEPT ![m.chan] = Append(@, m.msg)], Tail(msgs))

(* The sources of which a message with this tag waits for rank r. *)
Probe(r, tag) == {s \in Ranks : network[<<s, r, tag>>] # <<>>}

(* Every message this rank sent with these tags has been received. *)
SendsReceived(r, dests, tags) ==
  \A d \in dests : \A k \in tags : network[<<r, d, d + k>>] = <<>>

(* ------------------------------------------------------------------------ *)
(* Step 1: pack the elements, nodes and boundary faces per destination.     *)
(* ------------------------------------------------------------------------ *)
sendToRank(r) == {GetColor(LocalElems(r)[i]) : i \in 1 .. local_elem_Or(r)}

(* map<int,int> rankToIndCommBuf of a set of ranks: rank -> buffer index.  *)
RankToInd(S) == [d \in S |-> Cardinality({e \in S : e < d})]
(* The rank of buffer index ind (the map read by its iterator). *)
RankOfInd(m, ind) == CHOOSE d \in DOMAIN m : m[d] = ind

ElemShorts(g) ==
  <<GetVTK_Type(g), GetNPolyGrid(g), GetNPolySol(g), GetNDOFsGrid(g),
    GetNDOFsSol(g), GetnFaces(g), GetJacobianConsideredConstant(g)>>
  \o Concat([k \in 1 .. GetnFaces(g) |->
               <<GetPeriodicIndex(g, k - 1), GetJacobianConstantFace(g, k - 1)>>])
ElemLongs(g) ==
  <<GetGlobalElemID(g), GetGlobalOffsetDOFsSol(g)>>
  \o [j \in 1 .. GetNDOFsGrid(g) |-> GetNode(g, j - 1)]
  \o [k \in 1 .. GetnFaces(g) |-> GetNeighbor_Elements(g, k - 1)]

(* Mutation of ElemsFor: every element goes to every destination. *)
ElemsForEveryRank(r, dest) == LocalElems(r)

(* The elements of rank r coloured for rank dest, in the order of the loop. *)
ElemsFor(r, dest) == SelectSeq(LocalElems(r), LAMBDA g : GetColor(g) = dest)

PackElemShorts(r, dest) ==
  Concat([i \in 1 .. Len(ElemsFor(r, dest)) |-> ElemShorts(ElemsFor(r, dest)[i])])
PackElemLongs(r, dest) ==
  <<Len(ElemsFor(r, dest))>>
  \o Concat([i \in 1 .. Len(ElemsFor(r, dest)) |-> ElemLongs(ElemsFor(r, dest)[i])])

(* The node IDs in the connectivity of the nElem elements packed in the    *)
(* buffers, read back with the cursors indS and indL.                       *)
RECURSIVE ConnNodeIDs(_, _, _, _, _)
ConnNodeIDs(shortBuf, longBuf0, nElem, indS, indL) ==
  IF nElem = 0 THEN <<>>
  ELSE LET nDOFsGrid == At(shortBuf, indS)
           nFaces == At(shortBuf, indS + 2)
       IN  [k \in 1 .. nDOFsGrid |-> At(longBuf0, indL + k - 1)]
           \o ConnNodeIDs(shortBuf, longBuf0, nElem - 1,
                          indS + 2 * nFaces + 7, indL + nDOFsGrid + nFaces + 2)

(* Mutation of PackNodeIDs: the node IDs are sorted, the double entities   *)
(* are not removed.                                                         *)
PackNodeIDsSorted(r, dest) ==
  LET sb == PackElemShorts(r, dest)
      lb == PackElemLongs(r, dest)
  IN  SortBy(ConnNodeIDs(sb, lb, At(lb, 0), 3, 3), IntLess)

PackNodeIDs(r, dest) ==
  LET sb == PackElemShorts(r, dest)
      lb == PackElemLongs(r, dest)
  IN  UniqueBy(SortBy(ConnNodeIDs(sb, lb, At(lb, 0), 3, 3), IntLess), IntEq)

(* Mutation of NodeMissing: the lookup is not checked. *)
NodeMissingNever(r, nodeIDs) == FALSE

(* A node ID that globalPointIDToLocalInd does not hold. *)
NodeMissing(r, nodeIDs) ==
  LET have == Range(LocalNodes(r))
  IN  \E j \in 1 .. Len(nodeIDs) : nodeIDs[j] \notin have

PackCoords(nodeIDs) ==
  Concat([j \in 1 .. Len(nodeIDs) |-> [l \in 1 .. nDim |-> GetCoord(nodeIDs[j], l - 1)]])

(* Mutation of BoundFor: every face goes to every destination. *)
BoundForEveryRank(r, iMarker, dest) == bound(r, iMarker)

(* The boundary faces of marker iMarker that go to rank dest. *)
BoundFor(r, iMarker, dest) ==
  SelectSeq(bound(r, iMarker),
            LAMBDA f : GetColor(LocalElems(r)[f.DomainElement - starting_node(r) + 1]) = dest)
PackBoundShorts(r, dest) ==
  Concat([m \in 1 .. nMarker |->
    Concat([i \in 1 .. Len(BoundFor(r, m - 1, dest)) |->
      LET f == BoundFor(r, m - 1, dest)[i]
      IN  <<f.VTK_Type, f.nPolyGrid, f.nDOFsGrid>>])])
PackBoundLongs(r, dest) ==
  Concat([m \in 1 .. nMarker |->
    <<Len(BoundFor(r, m - 1, dest))>>
    \o Concat([i \in 1 .. Len(BoundFor(r, m - 1, dest)) |->
      LET f == BoundFor(r, m - 1, dest)[i]
      IN  <<f.DomainElement, f.GlobalElemID>> \o f.nodes])])

(* The three send buffers of rank r for rank dest. *)
PackBuffers(r, dest) ==
  LET nodeIDs == PackNodeIDs(r, dest)
  IN  [short |-> PackElemShorts(r, dest) \o PackBoundShorts(r, dest),
       long |-> PackElemLongs(r, dest) \o <<Len(nodeIDs)>> \o nodeIDs
                \o PackBoundLongs(r, dest),
       double |-> PackCoords(nodeIDs),
       nodeMissing |-> NodeMissing(r, nodeIDs)]

(* MPI_Reduce_scatter of sendToRank: the number of ranks that send to r.   *)
ReduceScatter(r, sendTo(_)) == Cardinality({q \in Ranks : r \in sendTo(q)})

(* The wait-all of the sends of a round returns: the library buffered the  *)
(* messages, or every one of them has been received.                        *)
WaitallReturns(r, dests, tags) ==
  mpiEager \/ SendsReceived(r, dests, tags)

(* Mutation of nRankRecvOwnership: nRankRecv keeps the value nRankSend. *)
nRankSendOwnership(r) == Cardinality(sendToRank(r))

(* Mutation of nRankRecvOwnership: a message of every rank is expected. *)
nRankRecvEveryRank(r) == NRank

(* nRankRecv of the ownership transfer. *)
nRankRecvOwnership(r) == ReduceScatter(r, sendToRank)

(* Rank r is at the start of the constructor. *)
PackAndSendReady(r) ==
  /\ HAVE_MPI
  /\ ~aborted
  /\ pc[r] = "start"

PackAndSend(r) ==
  /\ PackAndSendReady(r)
  /\ LET m == RankToInd(sendToRank(r))
         nRankSend == Cardinality(DOMAIN m)
         destOf == Vec([i \in 1 .. nRankSend |-> RankOfInd(m, i - 1)])
         bufs == Vec([i \in 1 .. nRankSend |-> PackBuffers(r, destOf[i])])
     IN  IF \E i \in 1 .. nRankSend : bufs[i].nodeMissing
         THEN /\ aborted' = TRUE
              /\ UNCHANGED <<pc, network, commVars>>
         ELSE /\ rankToIndCommBuf' = [rankToIndCommBuf EXCEPT ![r] = m]
              /\ shortSendBuf' = [shortSendBuf EXCEPT ![r] =
                   [i \in 1 .. nRankSend |-> bufs[i].short]]
              /\ longSendBuf' = [longSendBuf EXCEPT ![r] =
                   [i \in 1 .. nRankSend |-> bufs[i].long]]
              /\ doubleSendBuf' = [doubleSendBuf EXCEPT ![r] =
                   [i \in 1 .. nRankSend |-> bufs[i].double]]
              /\ nRankRecv' = [nRankRecv EXCEPT ![r] = nRankRecvOwnership(r)]
              /\ network' = SendAll(network, Concat([i \in 1 .. nRankSend |->
                   << [chan |-> <<r, destOf[i], destOf[i]>>,
                       msg |-> Msg(bufs[i].short, "ownership")],
                      [chan |-> <<r, destOf[i], destOf[i] + 1>>,
                       msg |-> Msg(bufs[i].long, "ownership")],
                      [chan |-> <<r, destOf[i], destOf[i] + 2>>,
                       msg |-> Msg(bufs[i].double, "ownership")] >>]))
              /\ pc' = [pc EXCEPT ![r] = "recv1"]
              /\ UNCHANGED <<aborted, shortRecvBuf, longRecvBuf, doubleRecvBuf, sourceRank>>
  /\ UNCHANGED <<periodicLoop, geometry, HAVE_MPI, mpiEager, meshVars, schedVars>>

(* One pass of the receive loop of the ownership transfer: the probe with  *)
(* MPI_ANY_SOURCE picks a waiting message with shorts, the longs and the   *)
(* doubles are then received from that source.                             *)
(* Mutation of RecvOwnership: the longs and the doubles are received from   *)
(* any source, not from the source of the shorts.                           *)
RecvOwnershipAnySource(r) ==
  /\ ~aborted
  /\ pc[r] = "recv1"
  /\ Len(shortRecvBuf[r]) < nRankRecv[r]
  /\ \E source \in Probe(r, r), source1 \in Probe(r, r + 1), source2 \in Probe(r, r + 2) :
       /\ shortRecvBuf' = [shortRecvBuf EXCEPT
            ![r] = Append(@, Head(network[<<source, r, r>>]).data)]
       /\ longRecvBuf' = [longRecvBuf EXCEPT
            ![r] = Append(@, Head(network[<<source1, r, r + 1>>]).data)]
       /\ doubleRecvBuf' = [doubleRecvBuf EXCEPT
            ![r] = Append(@, Head(network[<<source2, r, r + 2>>]).data)]
       /\ network' = [c \in Channels |->
            IF c \in {<<source, r, r>>, <<source1, r, r + 1>>, <<source2, r, r + 2>>}
            THEN Tail(network[c]) ELSE network[c]]
  /\ UNCHANGED <<periodicLoop, geometry, HAVE_MPI, mpiEager, pc, aborted, shortSendBuf, longSendBuf,
                 doubleSendBuf, rankToIndCommBuf, nRankRecv, sourceRank,
                 meshVars, schedVars>>

RecvOwnership(r) ==
  /\ ~aborted
  /\ pc[r] = "recv1"
  /\ Len(shortRecvBuf[r]) < nRankRecv[r]
  /\ \E source \in Probe(r, r) :
       /\ network[<<source, r, r + 1>>] # <<>>
       /\ network[<<source, r, r + 2>>] # <<>>
       /\ shortRecvBuf' = [shortRecvBuf EXCEPT
            ![r] = Append(@, Head(network[<<source, r, r>>]).data)]
       /\ longRecvBuf' = [longRecvBuf EXCEPT
            ![r] = Append(@, Head(network[<<source, r, r + 1>>]).data)]
       /\ doubleRecvBuf' = [doubleRecvBuf EXCEPT
            ![r] = Append(@, Head(network[<<source, r, r + 2>>]).data)]
       /\ network' = [network EXCEPT ![<<source, r, r>>] = Tail(@),
                                     ![<<source, r, r + 1>>] = Tail(@),
                                     ![<<source, r, r + 2>>] = Tail(@)]
  /\ UNCHANGED <<periodicLoop, geometry, HAVE_MPI, mpiEager, pc, aborted, shortSendBuf, longSendBuf,
                 doubleSendBuf, rankToIndCommBuf, nRankRecv, sourceRank,
                 meshVars, schedVars>>

(* The wait-all of the ownership sends, then the rank enters the barrier.  *)
WaitallBarrier1(r) ==
  /\ ~aborted
  /\ pc[r] = "recv1"
  /\ Len(shortRecvBuf[r]) = nRankRecv[r]
  /\ WaitallReturns(r, DOMAIN rankToIndCommBuf[r], {0, 1, 2})
  /\ pc' = [pc EXCEPT ![r] = "barrier1"]
  /\ UNCHANGED <<periodicLoop, geometry, HAVE_MPI, mpiEager, aborted, network, commVars, meshVars, schedVars>>

(* ------------------------------------------------------------------------ *)
(* The barriers and collectives: a rank leaves one when every rank has     *)
(* entered it.                                                              *)
(* ------------------------------------------------------------------------ *)
PcOrder == <<"start", "recv1", "barrier1", "reduce2", "recvReq", "recvResp",
             "barrier2", "constructed", "recvSched", "done", "setFaces">>
Stage(p) == CHOOSE i \in 1 .. Len(PcOrder) : PcOrder[i] = p
(* Mutation of AllReached: a rank does not wait for the others. *)
AllReachedAlways(p) == TRUE

AllReached(p) == \A q \in Ranks : Stage(pc[q]) >= Stage(p)

(* ------------------------------------------------------------------------ *)
(* Steps 1 (end) and 2: the owned global element IDs, the halo descriptors  *)
(* and the local data structures, read from the receive buffers.            *)
(* ------------------------------------------------------------------------ *)

(* The first walk over a receive buffer: the global element IDs, and the   *)
(* cursors behind the elements.                                             *)
RECURSIVE IDWalk(_, _, _, _, _)
IDWalk(sb, lb, n, indS, indL) ==
  IF n = 0 THEN [ids |-> <<>>, indS |-> indS, indL |-> indL]
  ELSE LET nDOFsGrid == At(sb, indS + 3)
           nFaces == At(sb, indS + 5)
           rest == IDWalk(sb, lb, n - 1, indS + 2 * nFaces + 7,
                          indL + nDOFsGrid + nFaces + 2)
       IN  [ids |-> <<At(lb, indL)>> \o rest.ids,
            indS |-> rest.indS, indL |-> rest.indL]

(* The cursors behind the n boundary faces of one marker. *)
RECURSIVE SkipBound(_, _, _, _)
SkipBound(sb, n, indS, indL) ==
  IF n = 0 THEN [indS |-> indS, indL |-> indL]
  ELSE SkipBound(sb, n - 1, indS + 3, indL + At(sb, indS + 2) + 2)

(* The numbers of boundary faces per marker stored in one buffer. *)
RECURSIVE BoundCounts(_, _, _, _, _)
BoundCounts(sb, lb, nMark, indS, indL) ==
  IF nMark = 0 THEN <<>>
  ELSE LET nBoundElemThisRank == At(lb, indL)
           c == SkipBound(sb, nBoundElemThisRank, indS, indL + 1)
       IN  <<nBoundElemThisRank>> \o BoundCounts(sb, lb, nMark - 1, c.indS, c.indL)

BufBoundCounts(sb, lb) ==
  LET w == IDWalk(sb, lb, At(lb, 0), 0, 1)
      nNodesThisRank == At(lb, w.indL)
  IN  BoundCounts(sb, lb, nMarker, w.indS, w.indL + nNodesThisRank + 1)

CollectElemIDs(sbs, lbs) ==
  SortBy(Concat([i \in 1 .. Len(lbs) |->
                   IDWalk(sbs[i], lbs[i], At(lbs[i], 0), 0, 1).ids]), IntLess)

CollectBoundCounts(sbs, lbs) ==
  LET counts == Vec([i \in 1 .. Len(lbs) |-> BufBoundCounts(sbs[i], lbs[i])])
  IN  [m \in 1 .. nMarker |-> SumSeq([i \in 1 .. Len(lbs) |-> counts[i][m]])]

(* Mutation of FaceHalos: a neighbour that is owned locally is internal,   *)
(* whatever the periodic index of the face.                                 *)
RECURSIVE FaceHalosPlain(_, _, _, _, _, _)
FaceHalosPlain(sb, lb, ids, nFaces, indS, indL) ==
  IF nFaces = 0 THEN <<>>
  ELSE LET this == IF At(lb, indL) # -1 /\ ~BinarySearchBy(ids, At(lb, indL), IntLess)
                   THEN <<Long2(At(lb, indL), At(sb, indS) + 1)>>
                   ELSE <<>>
       IN  this \o FaceHalosPlain(sb, lb, ids, nFaces - 1, indS + 2, indL + 1)

(* The second walk: the halo descriptors of the faces of one element, and  *)
(* of the elements of one buffer.                                           *)
RECURSIVE FaceHalos(_, _, _, _, _, _)
FaceHalos(sb, lb, ids, nFaces, indS, indL) ==
  IF nFaces = 0 THEN <<>>
  ELSE LET neighborIsInternal ==
             IF At(sb, indS) = -1
             THEN BinarySearchBy(ids, At(lb, indL), IntLess)
             ELSE FALSE
           this == IF At(lb, indL) # -1 /\ ~neighborIsInternal
                   THEN <<Long2(At(lb, indL), At(sb, indS) + 1)>>
                   ELSE <<>>
       IN  this \o FaceHalos(sb, lb, ids, nFaces - 1, indS + 2, indL + 1)

RECURSIVE HaloWalk(_, _, _, _, _, _)
HaloWalk(sb, lb, ids, n, indS, indL) ==
  IF n = 0 THEN <<>>
  ELSE LET nDOFsGrid == At(sb, indS + 3)
           nFaces == At(sb, indS + 5)
       IN  FaceHalos(sb, lb, ids, nFaces, indS + 7, indL + nDOFsGrid + 2)
           \o HaloWalk(sb, lb, ids, n - 1, indS + 7 + 2 * nFaces,
                       indL + nDOFsGrid + 2 + nFaces)

(* Mutation of CollectHalos: the descriptors are sorted but not made unique. *)
CollectHalosSorted(sbs, lbs, ids) ==
  SortBy(Concat([i \in 1 .. Len(lbs) |->
                   HaloWalk(sbs[i], lbs[i], ids, At(lbs[i], 0), 0, 1)]), Long2Less)

CollectHalos(sbs, lbs, ids) ==
  UniqueBy(SortBy(Concat([i \in 1 .. Len(lbs) |->
                     HaloWalk(sbs[i], lbs[i], ids, At(lbs[i], 0), 0, 1)]),
                  Long2Less), Long2Eq)

(* Mutation of mapGlobalElemIDToInd: the indices are given from the last   *)
(* slot down.                                                               *)
mapGlobalElemIDToIndReversed(ids) ==
  [g \in Range(ids) |->
     Len(ids) - (CHOOSE i \in 1 .. Len(ids) :
        ids[i] = g /\ \A j \in 1 .. Len(ids) : ids[j] = g => j <= i)]

(* map<unsigned long, unsigned long> mapGlobalElemIDToInd over the sorted  *)
(* owned IDs: a later entry with the same key replaces an earlier one.     *)
mapGlobalElemIDToInd(ids) ==
  [g \in Range(ids) |->
     (CHOOSE i \in 1 .. Len(ids) :
        ids[i] = g /\ \A j \in 1 .. Len(ids) : ids[j] = g => j <= i) - 1]
(* Mutation of mapGlobalHaloElemToInd: the slots start one too far. *)
mapGlobalHaloElemToIndShifted(nVolElemOwned, halos) ==
  [h \in Range(halos) |->
     nVolElemOwned + CHOOSE i \in 1 .. Len(halos) : halos[i] = h]

(* mapGlobalHaloElemToInd: the slot of every halo descriptor. *)
mapGlobalHaloElemToInd(nVolElemOwned, halos) ==
  [h \in Range(halos) |->
     nVolElemOwned - 1 + CHOOSE i \in 1 .. Len(halos) :
        halos[i] = h /\ \A j \in 1 .. Len(halos) : halos[j] = h => j <= i]

(* A slot of volElem that has not been written. The scalar members of a   *)
(* slot never assigned are indeterminate; Indeterminate stands for their   *)
(* value, which no step reads before the slot is written.                   *)
Indeterminate == 0 - 4096
EmptyVolElem ==
  [elemIsOwned |-> FALSE, rankOriginal |-> Indeterminate,
   periodIndexToDonor |-> Indeterminate, VTK_Type |-> Indeterminate,
   nPolyGrid |-> Indeterminate, nPolySol |-> Indeterminate,
   nDOFsGrid |-> Indeterminate, nDOFsSol |-> Indeterminate,
   nFaces |-> Indeterminate, JacIsConsideredConstant |-> FALSE,
   elemIDGlobal |-> Indeterminate, offsetDOFsSolGlobal |-> Indeterminate,
   offsetDOFsSolLocal |-> Indeterminate,
   nodeIDsGrid |-> <<>>, JacFacesIsConsideredConstant |-> <<>>]

(* Mutation of CopyElems: the node IDs are read one entry early, from the  *)
(* global DOF offset on.                                                    *)
RECURSIVE CopyElemsOneEarly(_, _, _, _, _, _)
CopyElemsOneEarly(sb, lb, rank, n, indS, indL) ==
  IF n = 0 THEN [elems |-> <<>>, indS |-> indS, indL |-> indL]
  ELSE LET nDOFsGrid == At(sb, indS + 3)
           nFaces == At(sb, indS + 5)
           e == [elemIsOwned |-> TRUE, rankOriginal |-> rank,
                 periodIndexToDonor |-> -1,
                 VTK_Type |-> At(sb, indS), nPolyGrid |-> At(sb, indS + 1),
                 nPolySol |-> At(sb, indS + 2), nDOFsGrid |-> nDOFsGrid,
                 nDOFsSol |-> At(sb, indS + 4), nFaces |-> nFaces,
                 JacIsConsideredConstant |-> (At(sb, indS + 6) # 0),
                 elemIDGlobal |-> At(lb, indL),
                 offsetDOFsSolGlobal |-> At(lb, indL + 1),
                 offsetDOFsSolLocal |-> Indeterminate,
                 nodeIDsGrid |-> [k \in 1 .. nDOFsGrid |-> At(lb, indL + 1 + k - 1)],
                 JacFacesIsConsideredConstant |->
                   [k \in 1 .. nFaces |-> (At(sb, indS + 7 + 2 * (k - 1) + 1) # 0)]]
           rest == CopyElemsOneEarly(sb, lb, rank, n - 1, indS + 7 + 2 * nFaces,
                                     indL + 2 + nDOFsGrid + nFaces)
       IN  [elems |-> <<e>> \o rest.elems, indS |-> rest.indS, indL |-> rest.indL]

(* The third walk: the owned elements of a buffer as they are stored. *)
RECURSIVE CopyElems(_, _, _, _, _, _)
CopyElems(sb, lb, rank, n, indS, indL) ==
  IF n = 0 THEN [elems |-> <<>>, indS |-> indS, indL |-> indL]
  ELSE LET nDOFsGrid == At(sb, indS + 3)
           nFaces == At(sb, indS + 5)
           e == [elemIsOwned |-> TRUE, rankOriginal |-> rank,
                 periodIndexToDonor |-> -1,
                 VTK_Type |-> At(sb, indS), nPolyGrid |-> At(sb, indS + 1),
                 nPolySol |-> At(sb, indS + 2), nDOFsGrid |-> nDOFsGrid,
                 nDOFsSol |-> At(sb, indS + 4), nFaces |-> nFaces,
                 JacIsConsideredConstant |-> (At(sb, indS + 6) # 0),
                 elemIDGlobal |-> At(lb, indL),
                 offsetDOFsSolGlobal |-> At(lb, indL + 1),
                 offsetDOFsSolLocal |-> Indeterminate,
                 nodeIDsGrid |-> [k \in 1 .. nDOFsGrid |-> At(lb, indL + 2 + k - 1)],
                 JacFacesIsConsideredConstant |->
                   [k \in 1 .. nFaces |-> (At(sb, indS + 7 + 2 * (k - 1) + 1) # 0)]]
           rest == CopyElems(sb, lb, rank, n - 1, indS + 7 + 2 * nFaces,
                             indL + 2 + nDOFsGrid + nFaces)
       IN  [elems |-> <<e>> \o rest.elems, indS |-> rest.indS, indL |-> rest.indL]

(* CPointFEM, with its ordering and equality. coor[2] is not read when     *)
(* nDim is 2 and is left out.                                               *)
PointFEM(id, per, coor) == [globalID |-> id, periodIndexToDonor |-> per, coor |-> coor]
(* Mutation of PointLess: the global ID is not compared, sorting leaves    *)
(* the points of one periodic index as they arrived.                       *)
PointLessByPeriodicIndex(p, q) == p.periodIndexToDonor < q.periodIndexToDonor

PointLess(p, q) ==
  IF p.periodIndexToDonor # q.periodIndexToDonor
  THEN p.periodIndexToDonor < q.periodIndexToDonor
  ELSE p.globalID < q.globalID
PointEq(p, q) ==
  p.globalID = q.globalID /\ p.periodIndexToDonor = q.periodIndexToDonor

(* The points of a buffer: nNodes global IDs from indL, nDim coordinates   *)
(* each from the start of the double buffer.                                *)
CopyPoints(lb, db, indL) ==
  [j \in 1 .. At(lb, indL) |->
     PointFEM(At(lb, indL + j), -1,
              [k \in 1 .. nDim |-> At(db, (j - 1) * nDim + k - 1)])]

(* CSurfaceElementFEM and its ordering. *)
SurfLess(a, b) ==
  a.volElemID < b.volElemID
  \/ (a.volElemID = b.volElemID /\ a.boundElemIDGlobal < b.boundElemIDGlobal)

RECURSIVE CopySurfElems(_, _, _, _, _)
CopySurfElems(sb, lb, n, indS, indL) ==
  IF n = 0 THEN [surf |-> <<>>, indS |-> indS, indL |-> indL]
  ELSE LET nDOFsGrid == At(sb, indS + 2)
           f == [VTK_Type |-> At(sb, indS), nPolyGrid |-> At(sb, indS + 1),
                 nDOFsGrid |-> nDOFsGrid,
                 volElemID |-> At(lb, indL), boundElemIDGlobal |-> At(lb, indL + 1),
                 nodeIDsGrid |-> [k \in 1 .. nDOFsGrid |-> At(lb, indL + 2 + k - 1)]]
           rest == CopySurfElems(sb, lb, n - 1, indS + 3, indL + 2 + nDOFsGrid)
       IN  [surf |-> <<f>> \o rest.surf, indS |-> rest.indS, indL |-> rest.indL]

RECURSIVE CopyBoundaries(_, _, _, _, _)
CopyBoundaries(sb, lb, nMark, indS, indL) ==
  IF nMark = 0 THEN [bounds |-> <<>>, indS |-> indS, indL |-> indL]
  ELSE LET c == CopySurfElems(sb, lb, At(lb, indL), indS, indL + 1)
           rest == CopyBoundaries(sb, lb, nMark - 1, c.indS, c.indL)
       IN  [bounds |-> <<c.surf>> \o rest.bounds,
            indS |-> rest.indS, indL |-> rest.indL]

(* Everything the copy loop reads from one buffer triple, and where its    *)
(* cursors end.                                                             *)
CopyBuffer(sb, lb, db, rank) ==
  LET ce == CopyElems(sb, lb, rank, At(lb, 0), 0, 1)
      nNodesThisRank == At(lb, ce.indL)
      cb == CopyBoundaries(sb, lb, nMarker, ce.indS, ce.indL + 1 + nNodesThisRank)
  IN  [elems |-> ce.elems, points |-> CopyPoints(lb, db, ce.indL),
       bounds |-> cb.bounds, indS |-> cb.indS, indL |-> cb.indL,
       indD |-> nNodesThisRank * nDim]

(* volElem after the copy loop: slot mapGlobalElemIDToInd[elemID] holds    *)
(* the element stored there last, a halo slot holds nothing yet.            *)
StoreOwned(elems, ids, nVolElemTot) ==
  LET ind == mapGlobalElemIDToInd(ids)
  IN  [k \in 1 .. nVolElemTot |->
         LET at == {i \in 1 .. Len(elems) : ind[elems[i].elemIDGlobal] + 1 = k}
         IN  IF at = {} THEN EmptyVolElem
             ELSE elems[CHOOSE i \in at : \A j \in at : j <= i]]

(* longRecvBuf[i].size() of every buffer of a list. *)
SizesOf(bufs) == [i \in 1 .. Len(bufs) |-> Len(bufs[i])]

(* A vector of buffers released with swap: as many buffers, all empty. *)
Released(bufs) == [i \in 1 .. Len(bufs) |-> <<>>]

(* What rank r assembles from the receive buffers sbs, lbs and dbs. *)
AssembledMesh(r, sbs, lbs, dbs) ==
  LET ids == CollectElemIDs(sbs, lbs)
      halos == CollectHalos(sbs, lbs, ids)
      cp == Vec([i \in 1 .. Len(lbs) |-> CopyBuffer(sbs[i], lbs[i], dbs[i], r)])
  IN  [globalElemID |-> ids,
       haloElements |-> halos,
       nElem_Bound |-> CollectBoundCounts(sbs, lbs),
       volElem |-> StoreOwned(Concat([i \in 1 .. Len(cp) |-> cp[i].elems]), ids,
                              Len(ids) + Len(halos)),
       meshPoints |-> UniqueBy(SortBy(Concat([i \in 1 .. Len(cp) |-> cp[i].points]),
                                      PointLess), PointEq),
       boundaries |-> [m \in 1 .. nMarker |->
                         SortBy(Concat([i \in 1 .. Len(cp) |-> cp[i].bounds[m]]),
                                SurfLess)]]

(* Rank r leaves the first barrier. *)
AssembleReady(r) ==
  /\ ~aborted
  /\ pc[r] = "barrier1"
  /\ AllReached("barrier1")

Assemble(r) ==
  /\ AssembleReady(r)
  /\ LET a == AssembledMesh(r, shortRecvBuf[r], longRecvBuf[r], doubleRecvBuf[r])
     IN  /\ globalElemID' = [globalElemID EXCEPT ![r] = a.globalElemID]
         /\ haloElements' = [haloElements EXCEPT ![r] = a.haloElements]
         /\ nElem_Bound' = [nElem_Bound EXCEPT ![r] = a.nElem_Bound]
         /\ volElem' = [volElem EXCEPT ![r] = a.volElem]
         /\ meshPoints' = [meshPoints EXCEPT ![r] = a.meshPoints]
         /\ boundaries' = [boundaries EXCEPT ![r] = a.boundaries]
  /\ shortSendBuf' = [shortSendBuf EXCEPT ![r] = Released(@)]
  /\ longSendBuf' = [longSendBuf EXCEPT ![r] = Released(@)]
  /\ doubleSendBuf' = [doubleSendBuf EXCEPT ![r] = Released(@)]
  /\ shortRecvBuf' = [shortRecvBuf EXCEPT ![r] = Released(@)]
  /\ longRecvBuf' = [longRecvBuf EXCEPT ![r] = Released(@)]
  /\ doubleRecvBuf' = [doubleRecvBuf EXCEPT ![r] = Released(@)]
  /\ pc' = [pc EXCEPT ![r] = "reduce2"]
  /\ UNCHANGED <<periodicLoop, geometry, HAVE_MPI, mpiEager, aborted, network, rankToIndCommBuf, nRankRecv,
                 sourceRank, mapGlobalPointIDToInd, storeLog, notFound,
                 requestSizes, schedVars>>

(* ------------------------------------------------------------------------ *)
(* Step 3: the halo detail round trip.                                      *)
(* ------------------------------------------------------------------------ *)
nElemPerRankOr == [i \in 1 .. nRank + 1 |-> geometry.starting_node[i - 1]]

(* The rank a halo request for global element ID g is sent to. *)
HaloRank(g) ==
  LET low == LowerBoundBy(nElemPerRankOr, g, IntLess)
      rankHalo == (low - 1) - 1
  IN  IF nElemPerRankOr[low] = g THEN rankHalo + 1 ELSE rankHalo

haloSendToRank(q) == {HaloRank(haloElements[q][i].long0) : i \in 1 .. Len(haloElements[q])}

(* The request buffer for rank dest: global ID, periodic index and volElem  *)
(* slot of every halo descriptor that is sent there.                        *)
PackRequests(halos, nVolElemOwned, dest) ==
  LET slot == mapGlobalHaloElemToInd(nVolElemOwned, halos)
  IN  Concat([i \in 1 .. Len(halos) |->
        IF HaloRank(halos[i].long0) = dest
        THEN <<halos[i].long0, halos[i].long1 - 1, slot[halos[i]]>>
        ELSE <<>>])

(* Rank r leaves the collective of the halo round. *)
RequestHalosReady(r) ==
  /\ HAVE_MPI
  /\ ~aborted
  /\ pc[r] = "reduce2"
  /\ AllReached("reduce2")

RequestHalos(r) ==
  /\ RequestHalosReady(r)
  /\ LET m == RankToInd(haloSendToRank(r))
         nRankSend == Cardinality(DOMAIN m)
         bufs == Vec([i \in 1 .. nRankSend |->
                    PackRequests(haloElements[r], Len(globalElemID[r]),
                                 RankOfInd(m, i - 1))])
     IN  /\ rankToIndCommBuf' = [rankToIndCommBuf EXCEPT ![r] = m]
         /\ longSendBuf' = [longSendBuf EXCEPT ![r] = bufs]
         /\ nRankRecv' = [nRankRecv EXCEPT ![r] = ReduceScatter(r, haloSendToRank)]
         /\ network' = SendAll(network, [i \in 1 .. nRankSend |->
              LET dest == RankOfInd(m, i - 1)
              IN  [chan |-> <<r, dest, dest>>, msg |-> Msg(bufs[i], "haloRequest")]])
  /\ longRecvBuf' = [longRecvBuf EXCEPT ![r] = <<>>]
  /\ sourceRank' = [sourceRank EXCEPT ![r] = <<>>]
  /\ pc' = [pc EXCEPT ![r] = "recvReq"]
  /\ UNCHANGED <<periodicLoop, geometry, HAVE_MPI, mpiEager, aborted, shortSendBuf, doubleSendBuf,
                 shortRecvBuf, doubleRecvBuf, meshVars, schedVars>>

(* One pass of the receive loop of the halo requests. *)
RecvRequest(r) ==
  /\ HAVE_MPI
  /\ ~aborted
  /\ pc[r] = "recvReq"
  /\ Len(longRecvBuf[r]) < nRankRecv[r]
  /\ \E source \in Probe(r, r) :
       /\ sourceRank' = [sourceRank EXCEPT ![r] = Append(@, source)]
       /\ longRecvBuf' = [longRecvBuf EXCEPT
            ![r] = Append(@, Head(network[<<source, r, r>>]).data)]
       /\ network' = [network EXCEPT ![<<source, r, r>>] = Tail(@)]
  /\ UNCHANGED <<periodicLoop, geometry, HAVE_MPI, mpiEager, pc, aborted, shortSendBuf, longSendBuf,
                 doubleSendBuf, shortRecvBuf, doubleRecvBuf, rankToIndCommBuf,
                 nRankRecv, meshVars, schedVars>>

(* The local index in the original partitioning of the element of entry j  *)
(* of a request buffer, and whether it is invalid.                          *)
LocElemInd(r, req, j) == At(req, 3 * j) - starting_node(r)
InvalidLocElemInd(r, req) ==
  \E j \in 0 .. ((Len(req) \div 3) - 1) :
    LocElemInd(r, req, j) < 0 \/ LocElemInd(r, req, j) >= npoint_procs(r)

(* The answer to a request buffer. *)
AnswerElemShorts(r, req, j) ==
  LET g == LocalElems(r)[LocElemInd(r, req, j) + 1]
  IN  <<At(req, 3 * j + 1), GetVTK_Type(g), GetNPolyGrid(g), GetNPolySol(g),
        GetNDOFsGrid(g), GetNDOFsSol(g), GetnFaces(g)>>
(* Mutation of AnswerElemLongs: the answering rank is sent as the owner,  *)
(* not the colour of the element.                                           *)
AnswerElemLongsOwnRank(r, req, j) ==
  LET g == LocalElems(r)[LocElemInd(r, req, j) + 1]
  IN  <<At(req, 3 * j), At(req, 3 * j + 2), r>>
      \o [k \in 1 .. GetNDOFsGrid(g) |-> GetNode(g, k - 1)]
(* Mutation of AnswerElemLongs: slot 0 is echoed, not the requested one. *)
AnswerElemLongsSlot0(r, req, j) ==
  LET g == LocalElems(r)[LocElemInd(r, req, j) + 1]
  IN  <<At(req, 3 * j), 0, GetColor(g)>>
      \o [k \in 1 .. GetNDOFsGrid(g) |-> GetNode(g, k - 1)]

AnswerElemLongs(r, req, j) ==
  LET g == LocalElems(r)[LocElemInd(r, req, j) + 1]
  IN  <<At(req, 3 * j), At(req, 3 * j + 2), GetColor(g)>>
      \o [k \in 1 .. GetNDOFsGrid(g) |-> GetNode(g, k - 1)]
(* Mutation of AnswerNodeIDs: the periodic index of the request is dropped. *)
AnswerNodeIDsPlain(r, req) ==
  UniqueBy(SortBy(
    Concat([j \in 1 .. Len(req) \div 3 |->
      LET g == LocalElems(r)[LocElemInd(r, req, j - 1) + 1]
      IN  [k \in 1 .. GetNDOFsGrid(g) |-> Long2(GetNode(g, k - 1), 0)]]),
    Long2Less), Long2Eq)

AnswerNodeIDs(r, req) ==
  UniqueBy(SortBy(
    Concat([j \in 1 .. Len(req) \div 3 |->
      LET g == LocalElems(r)[LocElemInd(r, req, j - 1) + 1]
      IN  [k \in 1 .. GetNDOFsGrid(g) |->
             Long2(GetNode(g, k - 1), At(req, 3 * (j - 1) + 1) + 1)]]),
    Long2Less), Long2Eq)
(* The three buffers that answer a request buffer, and whether building   *)
(* them aborts the run.                                                     *)
AnswerBuffers(r, req) ==
  IF InvalidLocElemInd(r, req)
  THEN [short |-> <<>>, long |-> <<>>, double |-> <<>>, aborts |-> TRUE]
  ELSE LET nElemBuf == Len(req) \div 3
           nodeIDs == AnswerNodeIDs(r, req)
           ids == Vec([j \in 1 .. Len(nodeIDs) |-> nodeIDs[j].long0])
       IN  [short |-> Concat([j \in 1 .. nElemBuf |-> AnswerElemShorts(r, req, j - 1)])
                      \o [j \in 1 .. Len(nodeIDs) |-> nodeIDs[j].long1 - 1],
            long |-> <<nElemBuf>>
                     \o Concat([j \in 1 .. nElemBuf |-> AnswerElemLongs(r, req, j - 1)])
                     \o <<Len(nodeIDs)>> \o ids,
            double |-> PackCoords(ids),
            aborts |-> NodeMissing(r, ids)]

(* The wait-all of the requests, then the answers are built and sent back, *)
(* buffer after buffer; the run aborts at the first buffer that is invalid. *)
(* Mutation of AnsweredBefore: the buffer that aborts is answered too. *)
AnsweredThrough(bad, n) ==
  IF bad = {} THEN n ELSE CHOOSE i \in bad : \A j \in bad : i <= j

(* The number of requests answered and sent back, of n, when the buffers   *)
(* of bad abort the run: those before the first of them.                    *)
AnsweredBefore(bad, n) ==
  IF bad = {} THEN n ELSE (CHOOSE i \in bad : \A j \in bad : i <= j) - 1

(* Rank r has received its requests and its own requests are complete. *)
(* Mutation of AnswerRequestsReady: the wait-all of the requests is left   *)
(* out.                                                                     *)
AnswerRequestsReadyNoWait(r) ==
  /\ HAVE_MPI
  /\ ~aborted
  /\ pc[r] = "recvReq"
  /\ Len(longRecvBuf[r]) = nRankRecv[r]

AnswerRequestsReady(r) ==
  /\ HAVE_MPI
  /\ ~aborted
  /\ pc[r] = "recvReq"
  /\ Len(longRecvBuf[r]) = nRankRecv[r]
  /\ WaitallReturns(r, DOMAIN rankToIndCommBuf[r], {0})

AnswerRequests(r) ==
  /\ AnswerRequestsReady(r)
  /\ LET reqs == longRecvBuf[r]
         ans == Vec([i \in 1 .. Len(reqs) |-> AnswerBuffers(r, reqs[i])])
         bad == {i \in 1 .. Len(reqs) : ans[i].aborts}
         nAnswered == AnsweredBefore(bad, Len(reqs))
     IN  /\ aborted' = (bad # {})
         /\ shortSendBuf' = [shortSendBuf EXCEPT ![r] = [i \in 1 .. Len(reqs) |->
              IF i <= nAnswered THEN ans[i].short ELSE <<>>]]
         /\ longSendBuf' = [longSendBuf EXCEPT ![r] = [i \in 1 .. Len(reqs) |->
              IF i <= nAnswered THEN ans[i].long ELSE <<>>]]
         /\ doubleSendBuf' = [doubleSendBuf EXCEPT ![r] = [i \in 1 .. Len(reqs) |->
              IF i <= nAnswered THEN ans[i].double ELSE <<>>]]
         /\ network' = SendAll(network, Concat([i \in 1 .. nAnswered |->
              LET dest == sourceRank[r][i]
              IN  << [chan |-> <<r, dest, dest + 1>>,
                      msg |-> Msg(ans[i].short, "haloResponse")],
                     [chan |-> <<r, dest, dest + 2>>,
                      msg |-> Msg(ans[i].long, "haloResponse")],
                     [chan |-> <<r, dest, dest + 3>>,
                      msg |-> Msg(ans[i].double, "haloResponse")] >>]))
         /\ pc' = [pc EXCEPT ![r] = IF bad = {} THEN "recvResp" ELSE @]
  /\ shortRecvBuf' = [shortRecvBuf EXCEPT ![r] = <<>>]
  /\ longRecvBuf' = [longRecvBuf EXCEPT ![r] = <<>>]
  /\ doubleRecvBuf' = [doubleRecvBuf EXCEPT ![r] = <<>>]
  /\ requestSizes' = [requestSizes EXCEPT ![r] = @ \o SizesOf(longRecvBuf[r])]
  /\ UNCHANGED <<periodicLoop, geometry, HAVE_MPI, mpiEager, rankToIndCommBuf, nRankRecv, sourceRank,
                 globalElemID, haloElements, volElem, meshPoints, boundaries,
                 mapGlobalPointIDToInd, nElem_Bound, storeLog, notFound, schedVars>>

(* One pass of the receive loop of the halo answers. *)
RecvResponse(r) ==
  /\ ~aborted
  /\ pc[r] = "recvResp"
  /\ Len(shortRecvBuf[r]) < Cardinality(DOMAIN rankToIndCommBuf[r])
  /\ \E source \in Probe(r, r + 1) :
       /\ network[<<source, r, r + 2>>] # <<>>
       /\ network[<<source, r, r + 3>>] # <<>>
       /\ shortRecvBuf' = [shortRecvBuf EXCEPT
            ![r] = Append(@, Head(network[<<source, r, r + 1>>]).data)]
       /\ longRecvBuf' = [longRecvBuf EXCEPT
            ![r] = Append(@, Head(network[<<source, r, r + 2>>]).data)]
       /\ doubleRecvBuf' = [doubleRecvBuf EXCEPT
            ![r] = Append(@, Head(network[<<source, r, r + 3>>]).data)]
       /\ network' = [network EXCEPT ![<<source, r, r + 1>>] = Tail(@),
                                     ![<<source, r, r + 2>>] = Tail(@),
                                     ![<<source, r, r + 3>>] = Tail(@)]
  /\ UNCHANGED <<periodicLoop, geometry, HAVE_MPI, mpiEager, pc, aborted, shortSendBuf, longSendBuf,
                 doubleSendBuf, rankToIndCommBuf, nRankRecv, sourceRank,
                 meshVars, schedVars>>

(* The wait-all of the answers, then the rank enters the second barrier. *)
WaitallBarrier2(r) ==
  /\ ~aborted
  /\ pc[r] = "recvResp"
  /\ Len(shortRecvBuf[r]) = Cardinality(DOMAIN rankToIndCommBuf[r])
  /\ WaitallReturns(r, Range(sourceRank[r]), {1, 2, 3})
  /\ pc' = [pc EXCEPT ![r] = "barrier2"]
  /\ UNCHANGED <<periodicLoop, geometry, HAVE_MPI, mpiEager, aborted, network, commVars, meshVars, schedVars>>

(* ------------------------------------------------------------------------ *)
(* Step 4: the halo elements and the halo points from the answers.          *)
(* ------------------------------------------------------------------------ *)

(* The halo elements of one answer: the slot indV each is stored in and    *)
(* the members that are assigned, and the cursors behind them.              *)
RECURSIVE HaloElems(_, _, _, _, _)
HaloElems(sb, lb, n, indS, indL) ==
  IF n = 0 THEN [stores |-> <<>>, indS |-> indS, indL |-> indL]
  ELSE LET nDOFsGrid == At(sb, indS + 4)
           st == [indV |-> At(lb, indL + 1),
                  elemIDGlobal |-> At(lb, indL),
                  rankOriginal |-> At(lb, indL + 2),
                  periodIndexToDonor |-> At(sb, indS),
                  VTK_Type |-> At(sb, indS + 1), nPolyGrid |-> At(sb, indS + 2),
                  nPolySol |-> At(sb, indS + 3), nDOFsGrid |-> nDOFsGrid,
                  nDOFsSol |-> At(sb, indS + 5), nFaces |-> At(sb, indS + 6),
                  nodeIDsGrid |-> [k \in 1 .. nDOFsGrid |-> At(lb, indL + 3 + k - 1)]]
           rest == HaloElems(sb, lb, n - 1, indS + 7, indL + 3 + nDOFsGrid)
       IN  [stores |-> <<st>> \o rest.stores, indS |-> rest.indS, indL |-> rest.indL]

(* volElem after the stores, one after the other. *)
RECURSIVE StoreHalos(_, _)
StoreHalos(vol, stores) ==
  IF stores = <<>> THEN vol
  ELSE LET st == Head(stores)
       IN  StoreHalos(
             [vol EXCEPT ![st.indV + 1] =
                [@ EXCEPT !.elemIDGlobal = st.elemIDGlobal,
                          !.rankOriginal = st.rankOriginal,
                          !.periodIndexToDonor = st.periodIndexToDonor,
                          !.VTK_Type = st.VTK_Type, !.nPolyGrid = st.nPolyGrid,
                          !.nPolySol = st.nPolySol, !.nDOFsGrid = st.nDOFsGrid,
                          !.nDOFsSol = st.nDOFsSol, !.nFaces = st.nFaces,
                          !.nodeIDsGrid = st.nodeIDsGrid,
                          !.elemIsOwned = FALSE,
                          !.JacIsConsideredConstant = FALSE,
                          !.offsetDOFsSolGlobal = ULONG_MAX]],
             Tail(stores))

(* The halo points of one answer, read behind its elements. *)
HaloBufPoints(sb, lb, db, indS, indL) ==
  [j \in 1 .. At(lb, indL) |->
     PointFEM(At(lb, indL + j), At(sb, indS + j - 1),
              [l \in 1 .. nDim |-> At(db, (j - 1) * nDim + l - 1)])]

(* Everything the loop over the receive buffers reads from one answer. *)
HaloBuffer(sb, lb, db) ==
  LET he == HaloElems(sb, lb, At(lb, 0), 0, 1)
  IN  [stores |-> he.stores, points |-> HaloBufPoints(sb, lb, db, he.indS, he.indL)]

(* The number of leading nonperiodic points: the loops over haloPoints     *)
(* break at the first periodic one.                                         *)
NonPeriodicPrefix(haloPoints) ==
  Cardinality({i \in 1 .. Len(haloPoints) :
                 \A j \in 1 .. i : haloPoints[j].periodIndexToDonor = -1})

(* Mutation of NewHaloPoints: no halo point is invalidated. *)
NewHaloPointsAll(haloPoints, points) == haloPoints

(* haloPoints after the nonperiodic points already stored on this rank     *)
(* have been invalidated and removed.                                        *)
NewHaloPoints(haloPoints, points) ==
  LET InvalidPointID == GetGlobal_nPoint + 10
      InvalidPerInd == SHRT_MAX
      nNonPer == NonPeriodicPrefix(haloPoints)
      found == {i \in 1 .. nNonPer : BinarySearchBy(points, haloPoints[i], PointLess)}
      marked == Vec([i \in 1 .. Len(haloPoints) |->
                  IF i \in found
                  THEN [haloPoints[i] EXCEPT !.globalID = InvalidPointID,
                                             !.periodIndexToDonor = InvalidPerInd]
                  ELSE haloPoints[i]])
      nHaloPoints == Len(haloPoints) - Cardinality(found)
  IN  SubSeq(SortBy(marked, PointLess), 1, nHaloPoints)

(* map<unsignedLong2T, unsigned long>: the points of meshPoints by global  *)
(* ID and periodic index + 1; a later point replaces an earlier one with   *)
(* the same key.                                                            *)
PointKey(p) == Long2(p.globalID, p.periodIndexToDonor + 1)
PointMap(points) ==
  [key \in {PointKey(points[i]) : i \in 1 .. Len(points)} |->
     (CHOOSE i \in 1 .. Len(points) :
        PointKey(points[i]) = key
        /\ \A j \in 1 .. Len(points) : PointKey(points[j]) = key => j <= i) - 1]

(* The keys a translation looks up, and the value it reads: the mapped     *)
(* value, or whatever the end iterator gives when the key is absent.       *)
Find(map, key, garbage) == IF key \in DOMAIN map THEN map[key] ELSE garbage

(* The boundary connectivities with local element and point indices. *)
LocalBoundaries(bnds, elemMap, pointMap, garbage) ==
  [m \in 1 .. Len(bnds) |->
     [i \in 1 .. Len(bnds[m]) |->
        [bnds[m][i] EXCEPT
           !.volElemID = Find(elemMap, bnds[m][i].volElemID, garbage),
           !.nodeIDsGrid = [j \in 1 .. bnds[m][i].nDOFsGrid |->
              Find(pointMap, Long2(bnds[m][i].nodeIDsGrid[j], 0), garbage)]]]]
BoundaryKeysNotFound(bnds, elemMap, pointMap) ==
  UNION {UNION {
    ({bnds[m][i].volElemID} \ DOMAIN elemMap)
    \cup ({Long2(bnds[m][i].nodeIDsGrid[j], 0) : j \in 1 .. bnds[m][i].nDOFsGrid}
          \ DOMAIN pointMap)
    : i \in 1 .. Len(bnds[m])} : m \in 1 .. Len(bnds)}

(* Integer square root (Newton's iteration from above). *)
RECURSIVE NewtonSqrt(_, _)
NewtonSqrt(x, s) ==
  LET next == (s + x \div s) \div 2
  IN  IF next >= s THEN s ELSE NewtonSqrt(x, next)
Sqrt(x) == IF x = 0 THEN 0 ELSE NewtonSqrt(x, x)
Min(a, b) == IF a < b THEN a ELSE b
Abs(a) == IF a < 0 THEN 0 - a ELSE a
Max(a, b) == IF a < b THEN b ELSE a

(* CSurfaceElementFEM::DetermineLengthScale of a line, the surface element *)
(* of a two-dimensional mesh: the length of its one edge.                   *)
DetermineLengthScale(surfElem, points) ==
  LET n0 == surfElem.nodeIDsGrid[1]
      n1 == surfElem.nodeIDsGrid[Len(surfElem.nodeIDsGrid)]
      ds == [l \in 1 .. 2 |-> At(points, n1).coor[l] - At(points, n0).coor[l]]
  IN  Sqrt(SumSeq([l \in 1 .. 2 |-> ds[l] * ds[l]]))

(* CPointCompare and its ordering with a tolerance. *)
PointCompare(nodeID, tol, coor) ==
  [nDim |-> nDim, nodeID |-> nodeID, tolForMatching |-> tol, coor |-> coor]
(* Mutation of CoorLess: the coordinates are compared exactly. *)
CoorLessExact(a, b, tol, l) ==
  \E k \in l .. nDim : a[k] < b[k] /\ \A j \in l .. (k - 1) : a[j] = b[j]
RECURSIVE CoorLess(_, _, _, _)
CoorLess(a, b, tol, l) ==
  IF l > nDim THEN FALSE
  ELSE IF Abs(a[l] - b[l]) > tol THEN a[l] < b[l]
  ELSE CoorLess(a, b, tol, l + 1)
PointCompareLess(p, q) ==
  IF p.nDim # q.nDim THEN p.nDim < q.nDim
  ELSE CoorLess(p.coor, q.coor, Min(p.tolForMatching, q.tolForMatching), 1)

(* The points of a periodic boundary, as the loop over its surface         *)
(* elements and their nodes collects them: entries holds the node and the  *)
(* tolerance of every visit, in order.                                      *)
RECURSIVE CollectPointsBoundary(_, _, _)
CollectPointsBoundary(entries, points, pointsBoundary) ==
  IF entries = <<>> THEN pointsBoundary
  ELSE LET e == Head(entries)
           at == {i \in 1 .. Len(pointsBoundary) : pointsBoundary[i].nodeID = e.nn}
       IN  CollectPointsBoundary(Tail(entries), points,
             IF at = {}
             THEN Append(pointsBoundary,
                         PointCompare(e.nn, e.tolElem, At(points, e.nn).coor))
             ELSE [pointsBoundary EXCEPT
                     ![CHOOSE i \in at : TRUE].tolForMatching = Min(@, e.tolElem)])
(* Mutation of PointsBoundary: no boundary point is collected. *)
PointsBoundaryNone(surfElem, points) == <<>>

PointsBoundary(surfElem, points) ==
  LET tolElem == Vec([j \in 1 .. Len(surfElem) |->
                   DetermineLengthScale(surfElem[j], points) \div TolDenominator])
      entries == Concat([j \in 1 .. Len(surfElem) |->
                   [k \in 1 .. surfElem[j].nDOFsGrid |->
                      [nn |-> surfElem[j].nodeIDsGrid[k], tolElem |-> tolElem[j]]]])
  IN  SortBy(CollectPointsBoundary(entries, points, <<>>), PointCompareLess)

(* Cosine and sine of an angle given in quarter turns. *)
Cos(a) == <<1, 0, -1, 0>>[(a % 4) + 1]
Sin(a) == <<0, 1, 0, -1>>[(a % 4) + 1]

(* The coordinates of a halo point after the transformation from the donor *)
(* of periodic marker perIndex.                                             *)
FromDonor(coor, perIndex) ==
  LET center == GetPeriodicRotCenter(perIndex)
      angles == GetPeriodicRotAngles(perIndex)
      trans == GetPeriodicTranslation(perIndex)
      translation == [l \in 1 .. 3 |-> center[l] - trans[l]]
      theta == angles[1]
      phi == angles[2]
      psi == angles[3]
      rotMatrix ==
        << <<Cos(phi) * Cos(psi), Cos(phi) * Sin(psi), 0 - Sin(phi)>>,
           <<Sin(theta) * Sin(phi) * Cos(psi) - Cos(theta) * Sin(psi),
             Sin(theta) * Sin(phi) * Sin(psi) + Cos(theta) * Cos(psi),
             Sin(theta) * Cos(phi)>>,
           <<Cos(theta) * Sin(phi) * Cos(psi) + Sin(theta) * Sin(psi),
             Cos(theta) * Sin(phi) * Sin(psi) - Sin(theta) * Cos(psi),
             Cos(theta) * Cos(phi)>> >>
      d == <<coor[1] - center[1], coor[2] - center[2], 0>>
  IN  [l \in 1 .. nDim |->
         rotMatrix[l][1] * d[1] + rotMatrix[l][2] * d[2] + rotMatrix[l][3] * d[3]
         + translation[l]]

(* "Just a large value" for the tolerance of a searched point. *)
LargeTol == EdgeLen * EdgeLen

(* The loop over the halo points iLow .. iUpp-1 of one periodic            *)
(* transformation: a point found on the boundary is mapped to the boundary *)
(* node, any other point is appended to meshPoints.                         *)
RECURSIVE MatchHaloPoints(_, _, _, _, _, _)
MatchHaloPoints(haloPoints, i, iUpp, pointsBoundary, points, map) ==
  IF i >= iUpp THEN [points |-> points, map |-> map]
  ELSE LET moved == [haloPoints[i] EXCEPT
                       !.coor = FromDonor(@, haloPoints[i].periodIndexToDonor)]
           thisPoint == PointCompare(ULONG_MAX, LargeTol, moved.coor)
           globIndAndPer == PointKey(haloPoints[i])
       IN  IF BinarySearchBy(pointsBoundary, thisPoint, PointCompareLess)
           THEN LET periodicLow == LowerBoundBy(pointsBoundary, thisPoint, PointCompareLess)
                IN  MatchHaloPoints(haloPoints, i + 1, iUpp, pointsBoundary, points,
                      (globIndAndPer :> pointsBoundary[periodicLow].nodeID) @@ map)
           ELSE MatchHaloPoints(haloPoints, i + 1, iUpp, pointsBoundary,
                                Append(points, moved),
                                (globIndAndPer :> Len(points)) @@ map)

(* The loop over the periodic transformations present in haloPoints. *)
RECURSIVE MatchPeriodic(_, _, _, _, _)
MatchPeriodic(haloPoints, iLow, bnds, points, map) ==
  IF iLow > Len(haloPoints) THEN [points |-> points, map |-> map]
  ELSE LET perIndex == haloPoints[iLow].periodIndexToDonor
           iUpp == iLow + Cardinality({i \in (iLow + 1) .. Len(haloPoints) :
                     \A j \in (iLow + 1) .. i :
                        haloPoints[j].periodIndexToDonor = perIndex}) + 1
       IN  IF perIndex = -1
           THEN MatchPeriodic(haloPoints, iUpp, bnds, points, map)
           ELSE LET res == MatchHaloPoints(haloPoints, iLow, iUpp,
                             PointsBoundary(bnds[perIndex + 1], points), points, map)
                IN  MatchPeriodic(haloPoints, iUpp, bnds, res.points, res.map)

(* The volume connectivities with local point indices. *)
LocalNodeIDs(vol, map, garbage) ==
  [i \in 1 .. Len(vol) |->
     [vol[i] EXCEPT !.nodeIDsGrid = [j \in 1 .. Len(@) |->
        Find(map, Long2(@[j], vol[i].periodIndexToDonor + 1), garbage)]]]
NodeKeysNotFound(vol, map) ==
  UNION {({Long2(vol[i].nodeIDsGrid[j], vol[i].periodIndexToDonor + 1) :
             j \in 1 .. Len(vol[i].nodeIDsGrid)} \ DOMAIN map)
         \cup (IF vol[i].nDOFsGrid = Len(vol[i].nodeIDsGrid) THEN {}
               ELSE {Long2(Indeterminate, vol[i].periodIndexToDonor + 1)})
         : i \in 1 .. Len(vol)}

(* The values an end iterator of a map may be read as. *)
EndIteratorValues == {Indeterminate, 0}

(* Step 4 from the answers sbs, lbs, dbs and the assembled mesh a: what   *)
(* is stored, when a lookup that misses reads garbage.                      *)
BuiltHalosFrom(a, sbs, lbs, dbs, garbage) ==
  LET nRankSend == Len(sbs)
      hb == Vec([i \in 1 .. nRankSend |-> HaloBuffer(sbs[i], lbs[i], dbs[i])])
      stores == Concat([i \in 1 .. nRankSend |-> hb[i].stores])
      vol == StoreHalos(a.volElem, stores)
      received == UniqueBy(SortBy(Concat([i \in 1 .. nRankSend |-> hb[i].points]),
                                  PointLess), PointEq)
      haloPoints == NewHaloPoints(received, a.meshPoints)
      points == a.meshPoints \o SubSeq(haloPoints, 1, NonPeriodicPrefix(haloPoints))
      map == PointMap(points)
      elemMap == mapGlobalElemIDToInd(a.globalElemID)
      bnds == LocalBoundaries(a.boundaries, elemMap, map, garbage)
      per == MatchPeriodic(haloPoints, 1, bnds, points, map)
  IN  [volElem |-> LocalNodeIDs(vol, per.map, garbage),
       meshPoints |-> per.points,
       boundaries |-> bnds,
       mapGlobalPointIDToInd |-> per.map,
       received |-> received,
       haloPoints |-> haloPoints,
       appended |-> points,
       stored |-> [k \in 1 .. Len(stores) |-> stores[k].indV],
       notFound |-> BoundaryKeysNotFound(a.boundaries, elemMap, map)
                    \cup NodeKeysNotFound(vol, per.map)]

(* Step 4 on rank r, from its receive buffers and its assembled mesh. *)
BuiltHalos(r, garbage) ==
  BuiltHalosFrom([volElem |-> volElem[r], meshPoints |-> meshPoints[r],
                  boundaries |-> boundaries[r], globalElemID |-> globalElemID[r]],
                 shortRecvBuf[r], longRecvBuf[r], doubleRecvBuf[r], garbage)

StoreBuilt(r, b) ==
  /\ volElem' = [volElem EXCEPT ![r] = b.volElem]
  /\ meshPoints' = [meshPoints EXCEPT ![r] = b.meshPoints]
  /\ boundaries' = [boundaries EXCEPT ![r] = b.boundaries]
  /\ mapGlobalPointIDToInd' = [mapGlobalPointIDToInd EXCEPT
       ![r] = b.mapGlobalPointIDToInd]
  /\ storeLog' = [storeLog EXCEPT ![r] = @ \o b.stored]
  /\ notFound' = [notFound EXCEPT ![r] = @ \cup b.notFound]

BuildHalos(r) ==
  /\ ~aborted
  /\ pc[r] = "barrier2"
  /\ AllReached("barrier2")
  /\ LET b == BuiltHalos(r, Indeterminate)
     IN  IF b.notFound = {} THEN StoreBuilt(r, b)
         ELSE \E garbage \in EndIteratorValues : StoreBuilt(r, BuiltHalos(r, garbage))
  /\ shortSendBuf' = [shortSendBuf EXCEPT ![r] = Released(@)]
  /\ longSendBuf' = [longSendBuf EXCEPT ![r] = Released(@)]
  /\ doubleSendBuf' = [doubleSendBuf EXCEPT ![r] = Released(@)]
  /\ shortRecvBuf' = [shortRecvBuf EXCEPT ![r] = Released(@)]
  /\ longRecvBuf' = [longRecvBuf EXCEPT ![r] = Released(@)]
  /\ doubleRecvBuf' = [doubleRecvBuf EXCEPT ![r] = Released(@)]
  /\ pc' = [pc EXCEPT ![r] = "constructed"]
  /\ UNCHANGED <<periodicLoop, geometry, HAVE_MPI, mpiEager, aborted, network, rankToIndCommBuf, nRankRecv,
                 sourceRank, globalElemID, haloElements, nElem_Bound,
                 requestSizes, schedVars>>

(* ------------------------------------------------------------------------ *)
(* CMeshFEM_DG::SetSendReceive: the communication schedule.                 *)
(* ------------------------------------------------------------------------ *)

(* Mutation of LocalOffsets: every offset is that of the first element. *)
LocalOffsetsZero(vol, i) == [k \in 1 .. i |-> 0]

(* volElem with the local offsets of the solution DOFs. *)
RECURSIVE LocalOffsets(_, _)
LocalOffsets(vol, i) ==
  IF i = 0 THEN <<>>
  ELSE IF i = 1 THEN <<0>>
  ELSE LET before == LocalOffsets(vol, i - 1)
       IN  Append(before, before[i - 1] + vol[i - 1].nDOFsSol)
WithLocalOffsets(vol) ==
  LET off == LocalOffsets(vol, Len(vol))
  IN  [i \in 1 .. Len(vol) |-> [vol[i] EXCEPT !.offsetDOFsSolLocal = off[i]]]

(* Mutation of CommRanks: the rank itself is never a neighbour. *)
CommRanksOthers(vol) ==
  LET commWithRank == [q \in Ranks |->
        \E i \in 1 .. Len(vol) :
          ~vol[i].elemIsOwned /\ vol[i].rankOriginal = q
          /\ \E j \in 1 .. Len(vol) : vol[j].elemIsOwned /\ vol[j].rankOriginal # q]
      m == RankToInd({q \in Ranks : commWithRank[q]})
  IN  [i \in 1 .. Cardinality(DOMAIN m) |-> RankOfInd(m, i - 1)]

(* The ranks with commWithRank set, in increasing order. *)
CommRanks(vol) ==
  LET commWithRank == [q \in Ranks |->
        \E i \in 1 .. Len(vol) : ~vol[i].elemIsOwned /\ vol[i].rankOriginal = q]
      m == RankToInd({q \in Ranks : commWithRank[q]})
  IN  [i \in 1 .. Cardinality(DOMAIN m) |-> RankOfInd(m, i - 1)]

(* Mutation of HalosOf: the owned elements of rank q are taken as well. *)
HalosOfRank(vol, q) == SelectSeq(vol, LAMBDA e : e.rankOriginal = q)

(* The halo elements of volElem whose original rank is q, in storage order. *)
HalosOf(vol, q) == SelectSeq(vol, LAMBDA e : ~e.elemIsOwned /\ e.rankOriginal = q)

(* Mutation of ElemDOFs: the DOFs are counted from 1. *)
ElemDOFsFromOne(e) == [j \in 1 .. e.nDOFsSol |-> e.offsetDOFsSolLocal + j]

(* The local DOFs of an element. *)
ElemDOFs(e) == [j \in 1 .. e.nDOFsSol |-> e.offsetDOFsSolLocal + j - 1]

(* Mutation of globalElemIDToLocalInd: every owned ID maps to slot 0. *)
globalElemIDToLocalIndZero(vol) ==
  [g \in {vol[i].elemIDGlobal : i \in {k \in 1 .. Len(vol) : vol[k].elemIsOwned}} |-> 0]

(* map globalElemIDToLocalInd: the owned elements by global ID. *)
globalElemIDToLocalInd(vol) ==
  [g \in {vol[i].elemIDGlobal : i \in {k \in 1 .. Len(vol) : vol[k].elemIsOwned}} |->
     (CHOOSE i \in 1 .. Len(vol) :
        /\ vol[i].elemIsOwned /\ vol[i].elemIDGlobal = g
        /\ \A j \in 1 .. Len(vol) :
             vol[j].elemIsOwned /\ vol[j].elemIDGlobal = g => j <= i) - 1]

(* Step 1 up to the non-blocking sends. With no element stored, the write  *)
(* to volElem[0] is out of bounds: the process dies or goes on.             *)
SetSendReceiveSend(r) ==
  /\ HAVE_MPI
  /\ ~aborted
  /\ pc[r] = "constructed"
  /\ \E dies \in IF volElem[r] = <<>> THEN BOOLEAN ELSE {FALSE} :
       IF dies
       THEN /\ aborted' = TRUE
            /\ UNCHANGED <<pc, network, volElem, schedVars>>
       ELSE \E vol \in {WithLocalOffsets(volElem[r])} :
            \E ranks \in {CommRanks(vol)} :
            \E bufs \in {[i \in 1 .. Len(ranks) |->
                          LET halos == HalosOf(vol, ranks[i])
                          IN  [k \in 1 .. Len(halos) |-> halos[k].elemIDGlobal]]} :
                /\ volElem' = [volElem EXCEPT ![r] = vol]
                /\ ranksComm' = [ranksComm EXCEPT ![r] = ranks]
                /\ longBuf' = [longBuf EXCEPT ![r] = bufs]
                /\ DOFsReceive' = [DOFsReceive EXCEPT ![r] =
                     [i \in 1 .. Len(ranks) |->
                        LET halos == HalosOf(vol, ranks[i])
                        IN  Concat([k \in 1 .. Len(halos) |-> ElemDOFs(halos[k])])]]
                /\ DOFsSend' = [DOFsSend EXCEPT ![r] = [i \in 1 .. Len(ranks) |-> <<>>]]
                /\ schedPos' = [schedPos EXCEPT ![r] = 0]
                /\ network' = SendAll(network, [i \in 1 .. Len(ranks) |->
                     [chan |-> <<r, ranks[i], ranks[i]>>,
                      msg |-> Msg(bufs[i], "schedule")]])
                /\ pc' = [pc EXCEPT ![r] = "recvSched"]
                /\ UNCHANGED aborted
  /\ UNCHANGED <<periodicLoop, geometry, HAVE_MPI, mpiEager, commVars, globalElemID, haloElements,
                 meshPoints, boundaries, mapGlobalPointIDToInd, nElem_Bound,
                 storeLog, notFound, requestSizes>>

(* One pass of the receive loop: the message of rank ranksComm[i]. *)
RecvSchedule(r) ==
  /\ ~aborted
  /\ pc[r] = "recvSched"
  /\ schedPos[r] < Len(ranksComm[r])
  /\ LET source == ranksComm[r][schedPos[r] + 1]
         ind == globalElemIDToLocalInd(volElem[r])
     IN  /\ network[<<source, r, r>>] # <<>>
         /\ LET buf == Head(network[<<source, r, r>>]).data
            IN  /\ aborted' = (\E j \in 1 .. Len(buf) : buf[j] \notin DOMAIN ind)
                /\ DOFsSend' = [DOFsSend EXCEPT ![r][schedPos[r] + 1] =
                     IF aborted' THEN @
                     ELSE Concat([j \in 1 .. Len(buf) |->
                            ElemDOFs(At(volElem[r], ind[buf[j]]))])]
         /\ network' = [network EXCEPT ![<<source, r, r>>] = Tail(@)]
  /\ schedPos' = [schedPos EXCEPT ![r] = @ + 1]
  /\ UNCHANGED <<periodicLoop, geometry, HAVE_MPI, mpiEager, pc, commVars, meshVars,
                 ranksComm, longBuf, DOFsReceive>>

(* The wait-all of the sends of the schedule. *)
WaitallSchedule(r) ==
  /\ ~aborted
  /\ pc[r] = "recvSched"
  /\ schedPos[r] = Len(ranksComm[r])
  /\ WaitallReturns(r, Range(ranksComm[r]), {0})
  /\ pc' = [pc EXCEPT ![r] = "done"]
  /\ UNCHANGED <<periodicLoop, geometry, HAVE_MPI, mpiEager, aborted, network, commVars, meshVars, schedVars>>

(* ------------------------------------------------------------------------ *)
(* Sequential mode: the code compiled without HAVE_MPI. There is one rank,  *)
(* nRankRecv stays nRankSend and every exchange is the assignment of slot   *)
(* 0 of the send buffers to slot 0 of the receive buffers.                  *)
(* ------------------------------------------------------------------------ *)

(* recvBuf[0] = sendBuf[0] on a receive list of nRecv slots. *)
CopySlot0(send, nRecv) == [i \in 1 .. nRecv |-> IF i = 1 THEN send[1] ELSE <<>>]

(* Whether the process dies in the assignment. With no slot 0 in the send  *)
(* or in the receive list the access is out of bounds: the process dies,   *)
(* or the assignment of nothing to nothing goes unnoticed.                  *)
CopyDies(nSend, nRecv) == IF nSend = 0 \/ nRecv = 0 THEN BOOLEAN ELSE {FALSE}
CopyResult(send, nRecv) ==
  IF Len(send) = 0 \/ nRecv = 0 THEN [i \in 1 .. nRecv |-> <<>>]
  ELSE CopySlot0(send, nRecv)

(* Step 1 and the copy of the ownership buffers. *)
SeqPackAndCopy(r) ==
  /\ ~HAVE_MPI
  /\ ~aborted
  /\ pc[r] = "start"
  /\ LET m == RankToInd(sendToRank(r))
         nRankSend == Cardinality(DOMAIN m)
         destOf == Vec([i \in 1 .. nRankSend |-> RankOfInd(m, i - 1)])
         bufs == Vec([i \in 1 .. nRankSend |-> PackBuffers(r, destOf[i])])
         shorts == [i \in 1 .. nRankSend |-> bufs[i].short]
         longs == [i \in 1 .. nRankSend |-> bufs[i].long]
         doubles == [i \in 1 .. nRankSend |-> bufs[i].double]
     IN  IF \E i \in 1 .. nRankSend : bufs[i].nodeMissing
         THEN /\ aborted' = TRUE
              /\ UNCHANGED <<pc, commVars>>
         ELSE \E dies \in CopyDies(nRankSend, nRankSend) :
              /\ aborted' = dies
              /\ rankToIndCommBuf' = [rankToIndCommBuf EXCEPT ![r] = m]
              /\ shortSendBuf' = [shortSendBuf EXCEPT ![r] = shorts]
              /\ longSendBuf' = [longSendBuf EXCEPT ![r] = longs]
              /\ doubleSendBuf' = [doubleSendBuf EXCEPT ![r] = doubles]
              /\ nRankRecv' = [nRankRecv EXCEPT ![r] = nRankSend]
              /\ shortRecvBuf' = [shortRecvBuf EXCEPT ![r] = CopyResult(shorts, nRankSend)]
              /\ longRecvBuf' = [longRecvBuf EXCEPT ![r] = CopyResult(longs, nRankSend)]
              /\ doubleRecvBuf' = [doubleRecvBuf EXCEPT ![r] =
                   CopyResult(doubles, nRankSend)]
              /\ pc' = [pc EXCEPT ![r] = IF dies THEN @ ELSE "barrier1"]
              /\ UNCHANGED sourceRank
  /\ UNCHANGED <<periodicLoop, geometry, HAVE_MPI, mpiEager, network, meshVars, schedVars>>

(* The halo requests and their copy. *)
SeqRequestAndCopy(r) ==
  /\ ~HAVE_MPI
  /\ ~aborted
  /\ pc[r] = "reduce2"
  /\ LET m == RankToInd(haloSendToRank(r))
         nRankSend == Cardinality(DOMAIN m)
         bufs == Vec([i \in 1 .. nRankSend |->
                    PackRequests(haloElements[r], Len(globalElemID[r]),
                                 RankOfInd(m, i - 1))])
     IN  \E dies \in CopyDies(nRankSend, nRankSend) :
           /\ aborted' = dies
           /\ rankToIndCommBuf' = [rankToIndCommBuf EXCEPT ![r] = m]
           /\ longSendBuf' = [longSendBuf EXCEPT ![r] = bufs]
           /\ nRankRecv' = [nRankRecv EXCEPT ![r] = nRankSend]
           /\ longRecvBuf' = [longRecvBuf EXCEPT ![r] = CopyResult(bufs, nRankSend)]
           /\ pc' = [pc EXCEPT ![r] = IF dies THEN @ ELSE "recvReq"]
  /\ UNCHANGED <<periodicLoop, geometry, HAVE_MPI, mpiEager, network, shortSendBuf, doubleSendBuf,
                 shortRecvBuf, doubleRecvBuf, sourceRank, meshVars, schedVars>>

(* The answers to the requests and their copy; the process exits at the    *)
(* first buffer that is invalid.                                            *)
SeqAnswerAndCopy(r) ==
  /\ ~HAVE_MPI
  /\ ~aborted
  /\ pc[r] = "recvReq"
  /\ LET reqs == longRecvBuf[r]
         nRankSend == Cardinality(DOMAIN rankToIndCommBuf[r])
         ans == Vec([i \in 1 .. Len(reqs) |-> AnswerBuffers(r, reqs[i])])
         shorts == [i \in 1 .. Len(reqs) |-> ans[i].short]
         longs == [i \in 1 .. Len(reqs) |-> ans[i].long]
         doubles == [i \in 1 .. Len(reqs) |-> ans[i].double]
     IN  IF \E i \in 1 .. Len(reqs) : ans[i].aborts
         THEN /\ aborted' = TRUE
              /\ UNCHANGED <<pc, commVars>>
         ELSE \E dies \in CopyDies(Len(reqs), nRankSend) :
              /\ aborted' = dies
              /\ shortSendBuf' = [shortSendBuf EXCEPT ![r] = shorts]
              /\ longSendBuf' = [longSendBuf EXCEPT ![r] = longs]
              /\ doubleSendBuf' = [doubleSendBuf EXCEPT ![r] = doubles]
              /\ shortRecvBuf' = [shortRecvBuf EXCEPT ![r] = CopyResult(shorts, nRankSend)]
              /\ longRecvBuf' = [longRecvBuf EXCEPT ![r] = CopyResult(longs, nRankSend)]
              /\ doubleRecvBuf' = [doubleRecvBuf EXCEPT ![r] =
                   CopyResult(doubles, nRankSend)]
              /\ pc' = [pc EXCEPT ![r] = IF dies THEN @ ELSE "barrier2"]
              /\ UNCHANGED <<rankToIndCommBuf, nRankRecv, sourceRank>>
  /\ requestSizes' = [requestSizes EXCEPT ![r] = @ \o SizesOf(longRecvBuf[r])]
  /\ UNCHANGED <<periodicLoop, geometry, HAVE_MPI, mpiEager, network,
                 globalElemID, haloElements, volElem, meshPoints, boundaries,
                 mapGlobalPointIDToInd, nElem_Bound, storeLog, notFound, schedVars>>

(* The DOFs to send in sequential mode: those of the owned elements named  *)
(* in longBuf[0], when there is a longBuf[0]; whether an ID is not found.   *)
SeqScheduleMissing(vol, bufs) ==
  /\ Len(bufs) > 0
  /\ \E j \in 1 .. Len(bufs[1]) : bufs[1][j] \notin DOMAIN globalElemIDToLocalInd(vol)
(* Mutation of SeqDOFsSend: nothing is sent. *)
SeqDOFsSendNone(vol, bufs) == [i \in 1 .. Len(bufs) |-> <<>>]

SeqDOFsSend(vol, bufs) ==
  LET ind == globalElemIDToLocalInd(vol)
  IN  [i \in 1 .. Len(bufs) |->
         IF i = 1
         THEN Concat([j \in 1 .. Len(bufs[1]) |-> ElemDOFs(At(vol, ind[bufs[1][j]]))])
         ELSE <<>>]

(* SetSendReceive in sequential mode. *)
SeqSetSendReceive(r) ==
  /\ ~HAVE_MPI
  /\ ~aborted
  /\ pc[r] = "constructed"
  /\ \E dies \in IF volElem[r] = <<>> THEN BOOLEAN ELSE {FALSE} :
       IF dies
       THEN /\ aborted' = TRUE
            /\ UNCHANGED <<pc, volElem, schedVars>>
       ELSE LET vol == Vec(WithLocalOffsets(volElem[r]))
                ranks == Vec(CommRanks(vol))
                bufs == Vec([i \in 1 .. Len(ranks) |->
                          LET halos == HalosOf(vol, ranks[i])
                          IN  [k \in 1 .. Len(halos) |-> halos[k].elemIDGlobal]])
            IN  /\ volElem' = [volElem EXCEPT ![r] = vol]
                /\ ranksComm' = [ranksComm EXCEPT ![r] = ranks]
                /\ longBuf' = [longBuf EXCEPT ![r] = bufs]
                /\ DOFsReceive' = [DOFsReceive EXCEPT ![r] =
                     [i \in 1 .. Len(ranks) |->
                        LET halos == HalosOf(vol, ranks[i])
                        IN  Concat([k \in 1 .. Len(halos) |-> ElemDOFs(halos[k])])]]
                /\ aborted' = SeqScheduleMissing(vol, bufs)
                /\ DOFsSend' = [DOFsSend EXCEPT ![r] =
                     IF aborted' THEN [i \in 1 .. Len(ranks) |-> <<>>]
                     ELSE SeqDOFsSend(vol, bufs)]
                /\ pc' = [pc EXCEPT ![r] = IF aborted' THEN @ ELSE "done"]
                /\ UNCHANGED schedPos
  /\ UNCHANGED <<periodicLoop, geometry, HAVE_MPI, mpiEager, network, commVars, globalElemID,
                 haloElements, meshPoints, boundaries, mapGlobalPointIDToInd,
                 nElem_Bound, storeLog, notFound, requestSizes>>

(* ------------------------------------------------------------------------ *)
(* SetFaces, called by every rank on the mesh SetSendReceive left. It       *)
(* prints that it is not implemented and stops the run: with message        *)
(* passing behind a barrier, without by exit.                               *)
(* ------------------------------------------------------------------------ *)

(* Mutation of SetFacesAbort: the call returns behind the barrier. *)
SetFacesReturns(r) ==
  /\ HAVE_MPI
  /\ ~aborted
  /\ pc[r] = "setFaces"
  /\ AllReached("setFaces")
  /\ pc' = [pc EXCEPT ![r] = "done"]
  /\ UNCHANGED <<periodicLoop, geometry, HAVE_MPI, mpiEager, aborted, network, commVars, meshVars,
                 schedVars>>

(* The diagnostic, then the rank enters the barrier. *)
SetFacesEnter(r) ==
  /\ HAVE_MPI
  /\ ~aborted
  /\ pc[r] = "done"
  /\ pc' = [pc EXCEPT ![r] = "setFaces"]
  /\ UNCHANGED <<periodicLoop, geometry, HAVE_MPI, mpiEager, aborted, network, commVars, meshVars,
                 schedVars>>

(* The rank leaves the barrier and aborts the run. *)
SetFacesAbort(r) ==
  /\ HAVE_MPI
  /\ ~aborted
  /\ pc[r] = "setFaces"
  /\ AllReached("setFaces")
  /\ aborted' = TRUE
  /\ UNCHANGED <<periodicLoop, geometry, HAVE_MPI, mpiEager, pc, network, commVars, meshVars,
                 schedVars>>

(* Sequential mode: the diagnostic, then exit. *)
SeqSetFaces(r) ==
  /\ ~HAVE_MPI
  /\ ~aborted
  /\ pc[r] = "done"
  /\ pc' = [pc EXCEPT ![r] = "setFaces"]
  /\ aborted' = TRUE
  /\ UNCHANGED <<periodicLoop, geometry, HAVE_MPI, mpiEager, network, commVars, meshVars, schedVars>>

(* ------------------------------------------------------------------------ *)
(* The input meshes and the initial state.                                  *)
(* ------------------------------------------------------------------------ *)
PartitionTables(n, size) ==
  {s \in [0 .. size -> 0 .. n] :
     /\ s[0] = 0
     /\ s[size] = n
     /\ \A i \in 0 .. (size - 1) : s[i] <= s[i + 1]}
GeometriesOf(n, size) ==
  [nRank : {size}, nElem : {n}, periodic : BOOLEAN, lostNode : {-1, 1},
   strayFaceNode : {FALSE},
   color : [0 .. (n - 1) -> 0 .. (size - 1)],
   starting_node : PartitionTables(n, size)]
(* The meshes of one rank with a face that names a node outside the mesh. *)
MalformedGeometries(n) ==
  [nRank : {1}, nElem : {n}, periodic : BOOLEAN, lostNode : {-1},
   strayFaceNode : {TRUE}, color : [0 .. (n - 1) -> {0}],
   starting_node : PartitionTables(n, 1)]
Geometries ==
  UNION ({GeometriesOf(n, size) : n \in 1 .. MaxElem, size \in 1 .. NRank}
         \cup {MalformedGeometries(n) : n \in 1 .. MaxElem})

(* The members of every rank before the constructor runs. *)
InitRanks ==
  /\ pc = [r \in Ranks |-> "start"]
  /\ aborted = FALSE
  /\ network = [c \in Channels |-> <<>>]
  /\ shortSendBuf = [r \in Ranks |-> <<>>]
  /\ longSendBuf = [r \in Ranks |-> <<>>]
  /\ doubleSendBuf = [r \in Ranks |-> <<>>]
  /\ shortRecvBuf = [r \in Ranks |-> <<>>]
  /\ longRecvBuf = [r \in Ranks |-> <<>>]
  /\ doubleRecvBuf = [r \in Ranks |-> <<>>]
  /\ rankToIndCommBuf = [r \in Ranks |-> <<>>]
  /\ nRankRecv = [r \in Ranks |-> 0]
  /\ sourceRank = [r \in Ranks |-> <<>>]
  /\ globalElemID = [r \in Ranks |-> <<>>]
  /\ haloElements = [r \in Ranks |-> <<>>]
  /\ volElem = [r \in Ranks |-> <<>>]
  /\ meshPoints = [r \in Ranks |-> <<>>]
  /\ boundaries = [r \in Ranks |-> <<>>]
  /\ mapGlobalPointIDToInd = [r \in Ranks |-> <<>>]
  /\ nElem_Bound = [r \in Ranks |-> <<>>]
  /\ ranksComm = [r \in Ranks |-> <<>>]
  /\ longBuf = [r \in Ranks |-> <<>>]
  /\ DOFsSend = [r \in Ranks |-> <<>>]
  /\ DOFsReceive = [r \in Ranks |-> <<>>]
  /\ schedPos = [r \in Ranks |-> 0]
  /\ storeLog = [r \in Ranks |-> <<>>]
  /\ notFound = [r \in Ranks |-> {}]
  /\ requestSizes = [r \in Ranks |-> <<>>]

(* The matching loop is not run on its own. *)
NoPeriodicLoop ==
  [stage |-> "none", pointsBoundary |-> <<>>, haloPoints |-> <<>>, i |-> 0,
   meshPoints |-> <<>>, mapGlobalPointIDToInd |-> <<>>]

Init ==
  /\ geometry \in Geometries
  /\ HAVE_MPI \in BOOLEAN
  /\ mpiEager \in BOOLEAN
  /\ ~HAVE_MPI => (nRank = 1 /\ ~mpiEager)
  /\ periodicLoop = NoPeriodicLoop
  /\ InitRanks

Next ==
  \E r \in Ranks :
    \/ PackAndSend(r)
    \/ RecvOwnership(r)
    \/ WaitallBarrier1(r)
    \/ Assemble(r)
    \/ RequestHalos(r)
    \/ RecvRequest(r)
    \/ AnswerRequests(r)
    \/ RecvResponse(r)
    \/ WaitallBarrier2(r)
    \/ BuildHalos(r)
    \/ SetSendReceiveSend(r)
    \/ RecvSchedule(r)
    \/ WaitallSchedule(r)
    \/ SeqPackAndCopy(r)
    \/ SeqRequestAndCopy(r)
    \/ SeqAnswerAndCopy(r)
    \/ SeqSetSendReceive(r)
    \/ SetFacesEnter(r)
    \/ SetFacesAbort(r)
    \/ SeqSetFaces(r)

Spec == Init /\ [][Next]_vars

(* Every rank is a process that goes on running: a step of SetSendReceive   *)
(* that a rank can take is taken. A receive stays possible until the rank   *)
(* takes it, since a message is removed by its destination only.            *)
ScheduleStep(r) ==
  /\ r \in Ranks
  /\ \/ SetSendReceiveSend(r)
     \/ RecvSchedule(r)
     \/ WaitallSchedule(r)
     \/ SeqSetSendReceive(r)

LiveSpec == Spec /\ \A r \in 0 .. (NRank - 1) : WF_vars(ScheduleStep(r))

(* ------------------------------------------------------------------------ *)
(* The matching loop of one periodic marker on its own (lines 1119-1247):   *)
(* the boundary points and the halo points are drawn from a small grid.     *)
(* ------------------------------------------------------------------------ *)
MaxCoor == 2
MaxTol == 2
MaxBoundary == 2
MaxHalo == 2

GridCoors == [1 .. nDim -> 0 .. MaxCoor]

(* pointsBoundary as the loop over the surface elements leaves it: n nodes  *)
(* of the boundary, node k - 1 with its coordinates and its tolerance.      *)
PointsBoundaryOf(n) ==
  {[k \in 1 .. n |-> PointCompare(k - 1, f[k].tol, f[k].coor)] :
     f \in [1 .. n -> [coor : GridCoors, tol : 1 .. MaxTol]]}

(* m halo points of periodic marker perIndex, sorted by global ID, whose    *)
(* coordinates the transformation from the donor takes onto the grid.       *)
HaloPointsOf(m, perIndex) ==
  {[k \in 1 .. m |->
      PointFEM(MaxBoundary + k, perIndex,
               [l \in 1 .. nDim |->
                  t[k][l] + GetPeriodicTranslation(perIndex)[l]])] :
     t \in [1 .. m -> GridCoors]}

(* std::sort has a defined result: on the points of pb the comparison is a  *)
(* strict weak order.                                                       *)
SortIsDefined(pb) ==
  \A a, b, c \in Range(pb) :
    /\ (PointCompareLess(a, b) /\ PointCompareLess(b, c)) => PointCompareLess(a, c)
    /\ (~PointCompareLess(a, b) /\ ~PointCompareLess(b, a)
        /\ ~PointCompareLess(b, c) /\ ~PointCompareLess(c, b))
         => (~PointCompareLess(a, c) /\ ~PointCompareLess(c, a))

(* The local points the boundary nodes of pb index. *)
BoundaryMeshPoints(pb) == [k \in 1 .. Len(pb) |-> PointFEM(k - 1, -1, pb[k].coor)]

MatchInit ==
  /\ geometry \in {g \in GeometriesOf(1, 1) : g.periodic /\ g.lostNode = -1}
  /\ HAVE_MPI = FALSE
  /\ mpiEager = FALSE
  /\ InitRanks
  /\ \E n \in 1 .. MaxBoundary, m \in 1 .. MaxHalo :
       \E pb \in PointsBoundaryOf(n), hp \in HaloPointsOf(m, 0) :
         /\ SortIsDefined(pb)
         /\ periodicLoop =
              [stage |-> "collected", pointsBoundary |-> pb, haloPoints |-> hp,
               i |-> 0, meshPoints |-> BoundaryMeshPoints(pb),
               mapGlobalPointIDToInd |-> PointMap(BoundaryMeshPoints(pb))]

(* sort(pointsBoundary.begin(), pointsBoundary.end()), line 1158. *)
SortPointsBoundary ==
  /\ periodicLoop.stage = "collected"
  /\ periodicLoop' = [periodicLoop EXCEPT
                        !.stage = "sorted",
                        !.pointsBoundary = SortBy(@, PointCompareLess)]
  /\ UNCHANGED <<geometry, HAVE_MPI, mpiEager, pc, aborted, network,
                 commVars, meshVars, schedVars>>

(* One pass of the loop over the halo points, lines 1197-1247. *)
MatchNextHaloPoint ==
  /\ periodicLoop.stage = "sorted"
  /\ periodicLoop.i < Len(periodicLoop.haloPoints)
  /\ LET res == MatchHaloPoints(periodicLoop.haloPoints, periodicLoop.i + 1,
                                periodicLoop.i + 2, periodicLoop.pointsBoundary,
                                periodicLoop.meshPoints,
                                periodicLoop.mapGlobalPointIDToInd)
     IN  periodicLoop' = [periodicLoop EXCEPT
                            !.i = @ + 1,
                            !.meshPoints = res.points,
                            !.mapGlobalPointIDToInd = res.map]
  /\ UNCHANGED <<geometry, HAVE_MPI, mpiEager, pc, aborted, network,
                 commVars, meshVars, schedVars>>

MatchNext == SortPointsBoundary \/ MatchNextHaloPoint

MatchSpec == MatchInit /\ [][MatchNext]_vars

(* ------------------------------------------------------------------------ *)
(* The answer to the halo requests on its own (lines 795-897): one rank of  *)
(* a mesh of two elements holds one request buffer of any size up to        *)
(* MaxRequest, with entries drawn from RequestValues.                       *)
(* ------------------------------------------------------------------------ *)
MaxRequest == 4

RequestValues == -1 .. 1

RequestBuffers == UNION {[1 .. n -> RequestValues] : n \in 0 .. MaxRequest}

AnswerInit ==
  /\ geometry \in {g \in GeometriesOf(2, 1) : g.lostNode = -1}
  /\ HAVE_MPI \in BOOLEAN
  /\ mpiEager = FALSE
  /\ periodicLoop = NoPeriodicLoop
  /\ pc = [r \in Ranks |-> "recvReq"]
  /\ aborted = FALSE
  /\ network = [c \in Channels |-> <<>>]
  /\ shortSendBuf = [r \in Ranks |-> <<>>]
  /\ longSendBuf = [r \in Ranks |-> <<>>]
  /\ doubleSendBuf = [r \in Ranks |-> <<>>]
  /\ shortRecvBuf = [r \in Ranks |-> <<>>]
  /\ \E req \in RequestBuffers : longRecvBuf = [r \in Ranks |-> <<req>>]
  /\ doubleRecvBuf = [r \in Ranks |-> <<>>]
  /\ rankToIndCommBuf = [r \in Ranks |-> RankToInd({r})]
  /\ nRankRecv = [r \in Ranks |-> 1]
  /\ sourceRank = [r \in Ranks |-> IF HAVE_MPI THEN <<r>> ELSE <<>>]
  /\ globalElemID = [r \in Ranks |-> <<>>]
  /\ haloElements = [r \in Ranks |-> <<>>]
  /\ volElem = [r \in Ranks |-> <<>>]
  /\ meshPoints = [r \in Ranks |-> <<>>]
  /\ boundaries = [r \in Ranks |-> <<>>]
  /\ mapGlobalPointIDToInd = [r \in Ranks |-> <<>>]
  /\ nElem_Bound = [r \in Ranks |-> <<>>]
  /\ ranksComm = [r \in Ranks |-> <<>>]
  /\ longBuf = [r \in Ranks |-> <<>>]
  /\ DOFsSend = [r \in Ranks |-> <<>>]
  /\ DOFsReceive = [r \in Ranks |-> <<>>]
  /\ schedPos = [r \in Ranks |-> 0]
  /\ storeLog = [r \in Ranks |-> <<>>]
  /\ notFound = [r \in Ranks |-> {}]
  /\ requestSizes = [r \in Ranks |-> <<>>]

AnswerNext == \E r \in Ranks : AnswerRequests(r) \/ SeqAnswerAndCopy(r)

AnswerSpec == AnswerInit /\ [][AnswerNext]_vars

(* ======================================================================== *)
(* Properties.                                                               *)
(* ======================================================================== *)
Count(s, x) == Cardinality({i \in 1 .. Len(s) : s[i] = x})
Owned(r) == Range(globalElemID[r])
Assembled(r) == Stage(pc[r]) >= Stage("reduce2")
Constructed(r) == Stage(pc[r]) >= Stage("constructed")
(* The rank that holds element g in the source partitioning. *)
SourceRank(g) == CHOOSE r \in Ranks : starting_node(r) <= g /\ g < ending_node(r)
(* The global element IDs packed in send buffer i of rank r. *)
SentIDs(r, i) ==
  IDWalk(shortSendBuf[r][i], longSendBuf[r][i], At(longSendBuf[r][i], 0), 0, 1).ids

(* C1: while the ownership buffers of a rank are in flight, every element  *)
(* it held is packed exactly once, in the buffer of its colour and in no   *)
(* other; once the ownership transfer has finished on all ranks, every     *)
(* global element ID is owned exactly once by the rank equal to its colour *)
(* and by no other rank.                                                     *)
C1_OwnershipPartition ==
  /\ \A r \in Ranks : pc[r] \in {"recv1", "barrier1"} =>
       \A g \in Range(LocalElems(r)) :
         /\ GetColor(g) \in DOMAIN rankToIndCommBuf[r]
         /\ \A i \in 1 .. Len(longSendBuf[r]) :
              Count(SentIDs(r, i), g)
                = IF rankToIndCommBuf[r][GetColor(g)] = i - 1 THEN 1 ELSE 0
  /\ AllReached("reduce2") =>
       \A g \in ElemIDs : \A r \in Ranks :
         Count(globalElemID[r], g) = IF r = GetColor(g) THEN 1 ELSE 0
C1_Witness ==
  /\ AllReached("reduce2")
  /\ nElemGlobal = MaxElem
  /\ \A r \in Ranks : globalElemID[r] # <<>>
  /\ \E g \in ElemIDs : GetColor(g) # SourceRank(g)

(* The halo pairs of rank r by the rule: the neighbour n and the periodic  *)
(* index p of every face of every owned element with n # -1 and p # -1 or  *)
(* n not owned.                                                              *)
HaloPairs(r) ==
  {Long2(GetNeighbor_Elements(g, k), GetPeriodicIndex(g, k) + 1) :
     <<g, k>> \in {gk \in Owned(r) \X (0 .. 3) :
        /\ gk[2] < GetnFaces(gk[1])
        /\ GetNeighbor_Elements(gk[1], gk[2]) # -1
        /\ (GetPeriodicIndex(gk[1], gk[2]) # -1
            \/ GetNeighbor_Elements(gk[1], gk[2]) \notin Owned(r))}}

(* C2: the halo set of a rank is exactly the set of pairs (n, p+1) of the  *)
(* faces of its owned elements with neighbour n # -1 and periodic index p  *)
(* such that p # -1 or n is not owned by the rank; no pair (n, 0) with n   *)
(* owned is in it.                                                           *)
C2_HaloSet ==
  \A r \in Ranks : Assembled(r) =>
    /\ Range(haloElements[r]) = HaloPairs(r)
    /\ \A n \in Owned(r) : Long2(n, 0) \notin Range(haloElements[r])
C2_Witness ==
  \E r \in Ranks :
    /\ Assembled(r)
    /\ \E h \in Range(haloElements[r]) : h.long0 \in Owned(r) /\ h.long1 # 0
    /\ \E h \in Range(haloElements[r]) : h.long0 \notin Owned(r) /\ h.long1 = 0

(* C3: the halo descriptor list holds no pair twice, and a neighbour       *)
(* reached through two different periodic indices, or plainly and          *)
(* periodically, has two entries and two halo slots.                        *)
C3_DistinctHalos ==
  \A r \in Ranks : Assembled(r) =>
    LET halos == haloElements[r]
        slot == mapGlobalHaloElemToInd(Len(globalElemID[r]), halos)
    IN  /\ \A i, j \in 1 .. Len(halos) : halos[i] = halos[j] => i = j
        /\ \A a, b \in HaloPairs(r) :
             a.long0 = b.long0 /\ a.long1 # b.long1 =>
               /\ Count(halos, a) = 1
               /\ Count(halos, b) = 1
               /\ slot[a] # slot[b]
C3_Witness ==
  \E r \in Ranks :
    /\ Assembled(r)
    /\ \E i, j \in 1 .. Len(haloElements[r]) :
         /\ haloElements[r][i].long0 = haloElements[r][j].long0
         /\ haloElements[r][i].long1 = 0
         /\ haloElements[r][j].long1 # 0


(* C4: volElem has owned + halo slots; the first owned slots hold the      *)
(* owned elements in the order of the sorted owned IDs; the halo map sends *)
(* the i-th descriptor of the halo list to slot owned + i, one to one onto *)
(* [owned, owned + halo), and that slot holds this descriptor's element     *)
(* once the halos are built.                                                 *)
C4_SlotLayout ==
  \A r \in Ranks : Assembled(r) =>
    LET owned == Len(globalElemID[r])
        halos == haloElements[r]
        slot == mapGlobalHaloElemToInd(owned, halos)
    IN  /\ Len(volElem[r]) = owned + Len(halos)
        /\ \A i \in 1 .. owned :
             /\ volElem[r][i].elemIsOwned
             /\ volElem[r][i].elemIDGlobal = globalElemID[r][i]
        /\ DOMAIN slot = Range(halos)
        /\ \A i \in 1 .. Len(halos) : slot[halos[i]] = owned + i - 1
        /\ {slot[h] : h \in DOMAIN slot} = owned .. (owned + Len(halos) - 1)
        /\ \A a, b \in DOMAIN slot : slot[a] = slot[b] => a = b
        /\ Constructed(r) =>
             \A i \in 1 .. Len(halos) :
               /\ volElem[r][owned + i].elemIDGlobal = halos[i].long0
               /\ volElem[r][owned + i].periodIndexToDonor + 1 = halos[i].long1
C4_Witness ==
  \E r \in Ranks :
    /\ Constructed(r)
    /\ Len(globalElemID[r]) >= 2
    /\ Len(haloElements[r]) >= 2

(* C5: when the halos of a rank are built, every halo slot has been        *)
(* written exactly once by an answer, holds the global ID and the periodic *)
(* index of the descriptor assigned to the slot and is marked not owned,   *)
(* and no answer wrote a slot below owned.                                   *)
C5_HaloSlotsWritten ==
  \A r \in Ranks : Constructed(r) =>
    LET owned == Len(globalElemID[r])
        halos == haloElements[r]
    IN  /\ \A i \in 1 .. Len(halos) :
             /\ Count(storeLog[r], owned + i - 1) = 1
             /\ volElem[r][owned + i].elemIDGlobal = halos[i].long0
             /\ volElem[r][owned + i].periodIndexToDonor = halos[i].long1 - 1
             /\ ~volElem[r][owned + i].elemIsOwned
        /\ \A k \in Range(storeLog[r]) : owned <= k /\ k < owned + Len(halos)
        /\ \A i \in 1 .. owned : volElem[r][i].elemIsOwned
C5_Witness ==
  \E r \in Ranks :
    /\ Constructed(r)
    /\ Len(globalElemID[r]) >= 1
    /\ Len(storeLog[r]) >= 2
    /\ \E q \in Ranks \ {r} : q \in Range(sourceRank[r])

NoDupPoints(points) ==
  \A i, j \in 1 .. Len(points) : PointEq(points[i], points[j]) => i = j
(* Rank r is about to build its halos. *)
BuilderReady(r) == ~aborted /\ pc[r] = "barrier2" /\ AllReached("barrier2")

(* C6: no two points of a rank's point list have the same global ID and    *)
(* periodic index: after the owned points are made unique, after the       *)
(* nonperiodic halo points are appended, after every periodic halo point   *)
(* is reconciled, and in the final list.                                     *)
C6_UniquePoints ==
  \A r \in Ranks :
    /\ Assembled(r) => NoDupPoints(meshPoints[r])
    /\ BuilderReady(r) =>
         LET b == BuiltHalos(r, Indeterminate)
         IN  /\ NoDupPoints(b.appended)
             /\ \A k \in 0 .. Len(b.haloPoints) :
                  NoDupPoints(MatchPeriodic(SubSeq(b.haloPoints, 1, k), 1,
                                b.boundaries, b.appended, PointMap(b.appended)).points)
C6_Witness ==
  \E r \in Ranks :
    /\ Constructed(r)
    /\ \E i, j \in 1 .. Len(meshPoints[r]) :
         /\ meshPoints[r][i].globalID = meshPoints[r][j].globalID
         /\ meshPoints[r][i].periodIndexToDonor = -1
         /\ meshPoints[r][j].periodIndexToDonor # -1
    /\ \E i \in 1 .. Len(volElem[r]) :
         ~volElem[r][i].elemIsOwned /\ volElem[r][i].periodIndexToDonor = -1

(* The input is consistent: it lacks no node of its elements and every     *)
(* boundary face names nodes of its owning element.                        *)
InputComplete == geometry.lostNode = -1 /\ ~geometry.strayFaceNode

(* C7: on a consistent input mesh no lookup of the                         *)
(* translation misses: the keys (node, periodic index + 1) of the nodes of *)
(* every volume element, (node, 0) of the nodes of every boundary face and *)
(* the element ID of every boundary face are found; afterwards every       *)
(* stored node index is an index of the point list and every boundary      *)
(* face's element index is the index of an owned element.                   *)
C7_LookupsPresent ==
  InputComplete => \A r \in Ranks :
    /\ BuilderReady(r) => BuiltHalos(r, Indeterminate).notFound = {}
    /\ Constructed(r) =>
         /\ notFound[r] = {}
         /\ \A i \in 1 .. Len(volElem[r]) :
              /\ Len(volElem[r][i].nodeIDsGrid) = volElem[r][i].nDOFsGrid
              /\ \A j \in 1 .. volElem[r][i].nDOFsGrid :
                   volElem[r][i].nodeIDsGrid[j] \in 0 .. (Len(meshPoints[r]) - 1)
         /\ \A m \in 1 .. nMarker : \A i \in 1 .. Len(boundaries[r][m]) :
              /\ boundaries[r][m][i].volElemID \in 0 .. (Len(globalElemID[r]) - 1)
              /\ \A j \in 1 .. boundaries[r][m][i].nDOFsGrid :
                   boundaries[r][m][i].nodeIDsGrid[j] \in 0 .. (Len(meshPoints[r]) - 1)
C7_Witness ==
  \E r \in Ranks :
    /\ Constructed(r)
    /\ \E i \in 1 .. Len(volElem[r]) : volElem[r][i].periodIndexToDonor > -1
    /\ \E i \in 1 .. Len(volElem[r]) :
         ~volElem[r][i].elemIsOwned /\ volElem[r][i].periodIndexToDonor = -1
    /\ \A m \in 1 .. nMarker : boundaries[r][m] # <<>>


(* The positions in the point list of rank r of the points with global ID  *)
(* g and periodic index p.                                                   *)
PointsWith(r, g, p) ==
  {k \in 1 .. Len(meshPoints[r]) :
     meshPoints[r][k].globalID = g /\ meshPoints[r][k].periodIndexToDonor = p}
(* The positions of the points of rank r on the boundary of periodic       *)
(* marker p that lie, in every coordinate, within 1e-4 of an edge length   *)
(* of node g moved by the transformation from the donor.                    *)
CoincidingBoundaryPoints(r, g, p) ==
  LET moved == FromDonor(<<GetCoord(g, 0), GetCoord(g, 1)>>, p)
      nodes == UNION {Range(boundaries[r][p + 1][f].nodeIDsGrid) :
                        f \in 1 .. Len(boundaries[r][p + 1])}
  IN  {k \in 1 .. Len(meshPoints[r]) :
         /\ k - 1 \in nodes
         /\ \A l \in 1 .. nDim :
              Abs(meshPoints[r][k].coor[l] - moved[l]) <= EdgeLen \div TolDenominator}

Scheduled(r) == Stage(pc[r]) >= Stage("recvSched")
(* The sum of nDOFsSol over the slots before slot i (1-based) of vol. *)
OffsetOf(vol, i) == SumSeq([k \in 1 .. (i - 1) |-> vol[k].nDOFsSol])

(* C9: after the first step of SetSendReceive, ranksComm of a rank is the  *)
(* increasing list of the distinct original ranks of its halo elements,    *)
(* and DOFsReceive for neighbour N lists, in the order of volElem, the     *)
(* indices offset(e) + j, 0 <= j < nDOFsSol(e), of the halo elements e of  *)
(* original rank N, and nothing else.                                        *)
C9_ReceiveLists ==
  \A r \in Ranks : Scheduled(r) =>
    LET vol == volElem[r]
        halo == {i \in 1 .. Len(vol) : ~vol[i].elemIsOwned}
    IN  /\ Range(ranksComm[r]) = {vol[i].rankOriginal : i \in halo}
        /\ \A a, b \in 1 .. Len(ranksComm[r]) :
             a < b => ranksComm[r][a] < ranksComm[r][b]
        /\ Len(DOFsReceive[r]) = Len(ranksComm[r])
        /\ \A n \in 1 .. Len(ranksComm[r]) :
             DOFsReceive[r][n] =
               Concat([i \in 1 .. Len(vol) |->
                 IF i \in halo /\ vol[i].rankOriginal = ranksComm[r][n]
                 THEN [j \in 1 .. vol[i].nDOFsSol |-> OffsetOf(vol, i) + j - 1]
                 ELSE <<>>])
C9_Witness ==
  \E r \in Ranks :
    /\ Scheduled(r)
    /\ Len(ranksComm[r]) = NRank
    /\ \E n \in 1 .. Len(ranksComm[r]) : Len(DOFsReceive[r][n]) > 1

(* The slot of vol that holds local DOF d. *)
SlotOfDOF(vol, d) ==
  CHOOSE i \in 1 .. Len(vol) :
    vol[i].offsetDOFsSolLocal <= d /\ d < vol[i].offsetDOFsSolLocal + vol[i].nDOFsSol

(* C10: when SetSendReceive has finished on all ranks, for every rank R    *)
(* and neighbour N of R, DOFsSend of R for N is as long as DOFsReceive of  *)
(* N for R, and the k-th send index is the DOF of an element owned by R    *)
(* with the global ID of, and the same DOF number as, the halo element of  *)
(* N that the k-th receive index belongs to.                                 *)
C10_SendMatchesReceive ==
  (\A r \in Ranks : pc[r] = "done") =>
    \A R \in Ranks : \A i \in 1 .. Len(ranksComm[R]) :
      LET N == ranksComm[R][i]
          send == DOFsSend[R][i]
      IN  /\ R \in Range(ranksComm[N])
          /\ LET recv == DOFsReceive[N][CHOOSE n \in 1 .. Len(ranksComm[N]) :
                                          ranksComm[N][n] = R]
             IN  /\ Len(send) = Len(recv)
                 /\ \A k \in 1 .. Len(send) :
                      LET es == volElem[R][SlotOfDOF(volElem[R], send[k])]
                          er == volElem[N][SlotOfDOF(volElem[N], recv[k])]
                      IN  /\ es.elemIsOwned
                          /\ ~er.elemIsOwned
                          /\ er.rankOriginal = R
                          /\ es.elemIDGlobal = er.elemIDGlobal
                          /\ send[k] - es.offsetDOFsSolLocal
                               = recv[k] - er.offsetDOFsSolLocal
                          /\ send[k] - es.offsetDOFsSolLocal < es.nDOFsSol
C10_Witness ==
  /\ \A r \in Ranks : pc[r] = "done"
  /\ \E R \in Ranks :
       /\ Len(ranksComm[R]) = NRank
       /\ \E i \in 1 .. Len(ranksComm[R]) :
            ranksComm[R][i] # R /\ Len(DOFsSend[R][i]) > 1


(* C11: SetSendReceive sets the local solution-DOF offset of the element   *)
(* at array index i to the sum of nDOFsSol over the elements at smaller    *)
(* indices (0 for index 0), so the DOF ranges of the slots follow one      *)
(* another without gap and are pairwise disjoint.                           *)
C11_LocalOffsets ==
  \A r \in Ranks : Scheduled(r) =>
    LET vol == volElem[r]
    IN  /\ \A i \in 1 .. Len(vol) : vol[i].offsetDOFsSolLocal = OffsetOf(vol, i)
        /\ \A i \in 1 .. (Len(vol) - 1) :
             vol[i + 1].offsetDOFsSolLocal
               = vol[i].offsetDOFsSolLocal + vol[i].nDOFsSol
        /\ \A i, j \in 1 .. Len(vol) :
             i < j => vol[i].offsetDOFsSolLocal + vol[i].nDOFsSol
                        <= vol[j].offsetDOFsSolLocal
C11_Witness ==
  \E r \in Ranks :
    /\ Scheduled(r)
    /\ Len(volElem[r]) >= 3
    /\ \E i \in 2 .. Len(volElem[r]) :
         /\ ~volElem[r][i].elemIsOwned
         /\ volElem[r][i].offsetDOFsSolLocal > volElem[r][i - 1].offsetDOFsSolLocal + 1


(* The ranks that hold, in the source partitioning, an element coloured r. *)
OwnershipSenders(r) ==
  {q \in Ranks : \E g \in ElemIDs :
     starting_node(q) <= g /\ g < ending_node(q) /\ geometry.color[g] = r}
(* The ranks that send, or are about to send, a halo request to rank r. *)
RequestSenders(r) ==
  {q \in Ranks : r \in (IF pc[q] = "reduce2" THEN haloSendToRank(q)
                        ELSE DOMAIN rankToIndCommBuf[q])}

(* C12: in the ownership transfer and in the halo request round a rank     *)
(* makes as many receive iterations as there are ranks that send to it,    *)
(* whatever the number of ranks it sends to itself: at any moment the      *)
(* receives still to come are matched one to one by the senders whose      *)
(* message waits or is still to be sent, no sender has two messages        *)
(* waiting, and when the loop has finished no message of the round is      *)
(* left.                                                                    *)
C12_ReceiveCounts ==
  ~aborted =>
    \A r \in Ranks :
      /\ pc[r] \in {"recv1", "barrier1"} =>
           /\ nRankRecv[r] = Cardinality(OwnershipSenders(r))
           /\ Len(shortRecvBuf[r]) <= nRankRecv[r]
           /\ nRankRecv[r] - Len(shortRecvBuf[r])
                = Cardinality({q \in OwnershipSenders(r) :
                                 pc[q] = "start" \/ network[<<q, r, r>>] # <<>>})
           /\ \A q \in Ranks : \A k \in 0 .. 2 :
                /\ Len(network[<<q, r, r + k>>]) <= 1
                /\ network[<<q, r, r + k>>] # <<>> => q \in OwnershipSenders(r)
                /\ pc[r] = "barrier1" => network[<<q, r, r + k>>] = <<>>
      /\ pc[r] = "recvReq" =>
           /\ nRankRecv[r] = Cardinality(RequestSenders(r))
           /\ Len(longRecvBuf[r]) <= nRankRecv[r]
           /\ nRankRecv[r] - Len(longRecvBuf[r])
                = Cardinality({q \in RequestSenders(r) :
                                 pc[q] = "reduce2" \/ network[<<q, r, r>>] # <<>>})
           /\ Range(sourceRank[r]) \subseteq RequestSenders(r)
           /\ Cardinality(Range(sourceRank[r])) = Len(sourceRank[r])
           /\ \A q \in Ranks :
                /\ Len(network[<<q, r, r>>]) <= 1
                /\ network[<<q, r, r>>] # <<>> => q \in RequestSenders(r)
C12_Witness ==
  /\ ~aborted
  /\ \E r \in Ranks :
       Cardinality(OwnershipSenders(r)) # Cardinality(sendToRank(r))
  /\ \E r \in Ranks :
       /\ pc[r] = "recvReq"
       /\ Len(longRecvBuf[r]) = nRankRecv[r]
       /\ nRankRecv[r] # Cardinality(DOMAIN rankToIndCommBuf[r])


(* The exchange round of the receive loop a rank is in, and the tags,      *)
(* relative to the rank, that its receives match.                           *)
ReceiveRound(p) ==
  CASE p = "recv1" -> [round |-> "ownership", tags |-> {0, 1, 2}]
    [] p = "recvReq" -> [round |-> "haloRequest", tags |-> {0}]
    [] p = "recvResp" -> [round |-> "haloResponse", tags |-> {1, 2, 3}]
    [] p = "recvSched" -> [round |-> "schedule", tags |-> {0}]
    [] OTHER -> [round |-> "none", tags |-> {}]

(* C13: under every interleaving and delivery order, every message that a  *)
(* receive of a rank can match (addressed to the rank, with a tag of the   *)
(* round the rank is receiving) was sent in that same round: no message of *)
(* one round is received by a receive of another round.                     *)
C13_NoCrossRound ==
  \A r \in Ranks : \A q \in Ranks : \A k \in ReceiveRound(pc[r]).tags :
    \A n \in 1 .. Len(network[<<q, r, r + k>>]) :
      network[<<q, r, r + k>>][n].round = ReceiveRound(pc[r]).round
C13_Witness ==
  \E r \in Ranks : \E q \in Ranks :
    /\ pc[r] = "recvReq"
    /\ Len(longRecvBuf[r]) < nRankRecv[r]
    /\ network[<<q, r, r>>] # <<>>
    /\ network[<<q, r, r + 1>>] # <<>>
    /\ Head(network[<<q, r, r + 1>>]).round = "haloResponse"


(* The ranks of S in increasing order. *)
Increasing(S) == [i \in 1 .. Cardinality(S) |-> RankOfInd(RankToInd(S), i - 1)]
(* The ownership buffers for rank r, in the order of their source ranks.   *)
OwnershipInRankOrder(r) ==
  LET from == Increasing({q \in Ranks : r \in sendToRank(q)})
  IN  Vec([i \in 1 .. Len(from) |-> PackBuffers(from[i], r)])
(* What rank r assembles when the ownership buffers arrive in rank order.  *)
AssembledInRankOrder(r) ==
  LET bufs == OwnershipInRankOrder(r)
  IN  AssembledMesh(r, [i \in 1 .. Len(bufs) |-> bufs[i].short],
                    [i \in 1 .. Len(bufs) |-> bufs[i].long],
                    [i \in 1 .. Len(bufs) |-> bufs[i].double])
(* The answers to the halo requests of a rank that assembled a, in the     *)
(* order of the answering ranks.                                            *)
AnswersInRankOrder(a) ==
  LET to == Increasing({HaloRank(a.haloElements[i].long0) :
                          i \in 1 .. Len(a.haloElements)})
  IN  Vec([i \in 1 .. Len(to) |->
        AnswerBuffers(to[i], PackRequests(a.haloElements, Len(a.globalElemID), to[i]))])
(* The mesh rank r ends with when every message arrives in rank order. *)
BuiltInRankOrder(r) ==
  LET a == AssembledInRankOrder(r)
      ans == AnswersInRankOrder(a)
  IN  BuiltHalosFrom(a, [i \in 1 .. Len(ans) |-> ans[i].short],
                     [i \in 1 .. Len(ans) |-> ans[i].long],
                     [i \in 1 .. Len(ans) |-> ans[i].double], Indeterminate)
SameMesh(x, y) ==
  /\ x.volElem = y.volElem
  /\ x.meshPoints = y.meshPoints
  /\ x.boundaries = y.boundaries
ThisMesh(r) ==
  [volElem |-> volElem[r], meshPoints |-> meshPoints[r], boundaries |-> boundaries[r]]

(* C14: on a consistent input the local mesh of a rank (element array,     *)
(* points, boundary lists)                                                 *)
(* does not depend on the order in which the messages of different source  *)
(* ranks arrive: whatever the order of arrival, what the rank assembles    *)
(* from the ownership buffers and what it ends the constructor with are    *)
(* what it gets when the messages arrive in the order of the source ranks. *)
C14_ArrivalOrder ==
  InputComplete => \A r \in Ranks :
    /\ (pc[r] = "barrier1" /\ AllReached("barrier1")) =>
         SameMesh(AssembledMesh(r, shortRecvBuf[r], longRecvBuf[r], doubleRecvBuf[r]),
                  AssembledInRankOrder(r))
    /\ pc[r] = "reduce2" => SameMesh(ThisMesh(r), AssembledInRankOrder(r))
    /\ (pc[r] = "barrier2" /\ AllReached("barrier2")) =>
         SameMesh(BuiltHalos(r, Indeterminate), BuiltInRankOrder(r))
    /\ pc[r] = "constructed" =>
         /\ SameMesh(ThisMesh(r), BuiltInRankOrder(r))
         /\ mapGlobalPointIDToInd[r] = BuiltInRankOrder(r).mapGlobalPointIDToInd
C14_Witness ==
  \E r \in Ranks :
    /\ pc[r] = "barrier2"
    /\ AllReached("barrier2")
    /\ Len(longRecvBuf[r]) = NRank
    /\ LET ans == AnswersInRankOrder([haloElements |-> haloElements[r],
                                      globalElemID |-> globalElemID[r]])
       IN  /\ longRecvBuf[r][1] = ans[2].long
           /\ longRecvBuf[r][2] = ans[1].long
           /\ ans[1].long # ans[2].long
    /\ Cardinality({q \in Ranks : r \in sendToRank(q)}) = NRank


(* Rank r can take a step of the constructor up to the second barrier:    *)
(* the steps that compute are possible when the rank is ready for them,    *)
(* the receives and the wait-alls when their message or completion is      *)
(* there.                                                                   *)
CanStep(r) ==
  \/ PackAndSendReady(r)
  \/ ENABLED RecvOwnership(r)
  \/ ENABLED WaitallBarrier1(r)
  \/ AssembleReady(r)
  \/ RequestHalosReady(r)
  \/ ENABLED RecvRequest(r)
  \/ AnswerRequestsReady(r)
  \/ ENABLED RecvResponse(r)
  \/ ENABLED WaitallBarrier2(r)

(* C15: in parallel mode, for every colouring, with or without buffering   *)
(* of the sends, as long as no fatal check has fired and not every rank    *)
(* has completed the ownership transfer and the halo request and response  *)
(* rounds and entered the second barrier, some rank can take its next      *)
(* step: the constructor does not deadlock.                                 *)
C15_NoDeadlock ==
  (HAVE_MPI /\ ~aborted /\ ~AllReached("barrier2")) => \E r \in Ranks : CanStep(r)
C15_Witness ==
  /\ HAVE_MPI
  /\ ~aborted
  /\ ~mpiEager
  /\ AllReached("barrier2")
  /\ \E r \in Ranks :
       /\ Len(sourceRank[r]) = NRank
       /\ Cardinality(OwnershipSenders(r)) # Cardinality(sendToRank(r))

(* The communication schedule of a run with one rank that passes messages, *)
(* from the element array the constructor left: the only neighbour is the  *)
(* rank itself and the message it receives is the one it sent.             *)
ScheduleOfOneRank(vol0) ==
  LET vol == Vec(WithLocalOffsets(vol0))
      ranks == Vec(CommRanks(vol))
      bufs == Vec([i \in 1 .. Len(ranks) |->
                LET halos == HalosOf(vol, ranks[i])
                IN  [k \in 1 .. Len(halos) |-> halos[k].elemIDGlobal]])
      ind == globalElemIDToLocalInd(vol)
  IN  [ranksComm |-> ranks,
       longBuf |-> bufs,
       DOFsReceive |-> [i \in 1 .. Len(ranks) |->
          LET halos == HalosOf(vol, ranks[i])
          IN  Concat([k \in 1 .. Len(halos) |-> ElemDOFs(halos[k])])],
       DOFsSend |-> [i \in 1 .. Len(ranks) |->
          Concat([j \in 1 .. Len(bufs[i]) |-> ElemDOFs(At(vol, ind[bufs[i][j]]))])]]
ThisSchedule(r) ==
  [ranksComm |-> ranksComm[r], longBuf |-> longBuf[r],
   DOFsReceive |-> DOFsReceive[r], DOFsSend |-> DOFsSend[r]]
(* Slot 0 of a receive list exists and holds what slot 0 of the send list  *)
(* holds.                                                                   *)
IsCopyOfSlot0(recv, send) == Len(recv) > 0 /\ Len(send) > 0 /\ recv[1] = send[1]
(* Every exchange the single rank has made is a copy of slot 0. *)
ExchangesAreCopies ==
  /\ pc[0] = "barrier1" =>
       /\ IsCopyOfSlot0(shortRecvBuf[0], shortSendBuf[0])
       /\ IsCopyOfSlot0(longRecvBuf[0], longSendBuf[0])
       /\ IsCopyOfSlot0(doubleRecvBuf[0], doubleSendBuf[0])
  /\ pc[0] = "recvReq" => IsCopyOfSlot0(longRecvBuf[0], longSendBuf[0])
  /\ pc[0] = "barrier2" =>
       /\ IsCopyOfSlot0(shortRecvBuf[0], shortSendBuf[0])
       /\ IsCopyOfSlot0(longRecvBuf[0], longSendBuf[0])
       /\ IsCopyOfSlot0(doubleRecvBuf[0], doubleSendBuf[0])
(* The run was stopped before the constructor and SetSendReceive were      *)
(* through on every rank.                                                   *)
StoppedEarly == aborted /\ ~AllReached("setFaces")
(* The single rank holds the mesh and the schedule of the run with one     *)
(* rank that passes messages.                                               *)
MeshAndScheduleOfOneRank ==
  /\ pc[0] = "constructed" => SameMesh(ThisMesh(0), BuiltInRankOrder(0))
  /\ Stage(pc[0]) >= Stage("done") =>
       /\ volElem[0] = WithLocalOffsets(BuiltInRankOrder(0).volElem)
       /\ meshPoints[0] = BuiltInRankOrder(0).meshPoints
       /\ boundaries[0] = BuiltInRankOrder(0).boundaries
       /\ ThisSchedule(0) = ScheduleOfOneRank(BuiltInRankOrder(0).volElem)
(* On a complete input the run with one rank that passes messages never    *)
(* stops early and ends with that mesh and schedule.                        *)
OneRankMessagePassing ==
  (HAVE_MPI /\ nRank = 1 /\ InputComplete) =>
     (~StoppedEarly /\ MeshAndScheduleOfOneRank)
(* The sequential run agrees with it wherever the buffer lists have a slot *)
(* 0: that is, when the mesh has a periodic face.                           *)
SequentialWithHalos ==
  (~HAVE_MPI /\ InputComplete /\ geometry.periodic) =>
     (~StoppedEarly /\ ExchangesAreCopies /\ MeshAndScheduleOfOneRank)

(* C16: in sequential mode every exchange is a copy of slot 0 of the send  *)
(* buffers into slot 0 of the receive buffers, and the run produces the    *)
(* local mesh and the schedule that the run with one rank that passes      *)
(* messages produces (which, on a complete input, always completes).        *)
C16_SequentialAsStated ==
  (~HAVE_MPI /\ InputComplete) =>
     (~StoppedEarly /\ ExchangesAreCopies /\ MeshAndScheduleOfOneRank)
(* A sequential run on a mesh without periodic face that stopped in the    *)
(* copy of the halo requests.                                               *)
C16_Witness ==
  /\ ~HAVE_MPI
  /\ InputComplete
  /\ ~geometry.periodic
  /\ aborted
  /\ pc[0] = "reduce2"
  /\ haloElements[0] = <<>>

(* The element array of rank r has a halo slot for element g behind the    *)
(* periodic boundary per, owned by rank q.                                  *)
HasHaloSlot(r, g, per, q) ==
  \E i \in 1 .. Len(volElem[r]) :
    /\ ~volElem[r][i].elemIsOwned
    /\ volElem[r][i].elemIDGlobal = g
    /\ volElem[r][i].periodIndexToDonor = per
    /\ volElem[r][i].rankOriginal = q

(* C17: in a run with a single rank, with or without message passing,      *)
(* every face of an owned element that carries a periodic index has a halo *)
(* slot in the constructed element array: not owned, with the rank itself  *)
(* as owner and with the periodic index of the face; and after             *)
(* SetSendReceive the rank is its own one neighbour and the send list and  *)
(* the receive list for it have the same length.                            *)
C17_SingleRankPeriodic ==
  (nRank = 1 /\ ~aborted) =>
     /\ Constructed(0) =>
          \A i \in 1 .. Len(volElem[0]) : \A k \in 0 .. (GetnFaces(0) - 1) :
            LET g == volElem[0][i].elemIDGlobal
            IN  (volElem[0][i].elemIsOwned /\ GetPeriodicIndex(g, k) # -1) =>
                  HasHaloSlot(0, GetNeighbor_Elements(g, k), GetPeriodicIndex(g, k), 0)
     /\ (pc[0] = "done" /\ geometry.periodic) =>
          /\ ranksComm[0] = <<0>>
          /\ Len(DOFsSend[0]) = 1
          /\ Len(DOFsReceive[0]) = 1
          /\ Len(DOFsSend[0][1]) = Len(DOFsReceive[0][1])
(* A finished sequential run on a periodic mesh of several elements. *)
C17_Witness ==
  /\ ~HAVE_MPI
  /\ ~aborted
  /\ pc[0] = "done"
  /\ geometry.periodic
  /\ geometry.nElem = MaxElem
  /\ HasHaloSlot(0, 0, 1, 0)
  /\ HasHaloSlot(0, MaxElem - 1, 0, 0)
  /\ Len(DOFsSend[0][1]) > 1

(* The request buffer rank q sends to rank r in the halo round. *)
RequestOf(q, r) == PackRequests(haloElements[q], Len(globalElemID[q]), r)

(* C18: when a rank answers its halo requests and one of them names an     *)
(* element whose local index on that rank is negative or not less than its *)
(* element count, the run aborts and the rank sends no answer to that      *)
(* request: no message is added to the three queues from the rank to the   *)
(* requester.                                                               *)
C18_InvalidRequestAborts ==
  [][\A r \in Ranks : \A i \in 1 .. Len(longRecvBuf[r]) :
       (/\ AnswerRequestsReady(r)
        /\ longRecvBuf'[r] # longRecvBuf[r]
        /\ InvalidLocElemInd(r, longRecvBuf[r][i]))
       => /\ aborted'
          /\ pc'[r] = pc[r]
          /\ \A k \in 1 .. 3 :
               LET c == <<r, sourceRank[r][i], sourceRank[r][i] + k>>
               IN  network'[c] = network[c]]_vars
(* A rank has stopped the run while answering, and a request it received   *)
(* names an element that is not one of its own.                             *)
C18_Witness ==
  /\ HAVE_MPI
  /\ aborted
  /\ \E r \in Ranks :
       /\ pc[r] = "recvReq"
       /\ Len(sourceRank[r]) = nRankRecv[r]
       /\ longRecvBuf[r] = <<>>
       /\ \E i \in 1 .. Len(sourceRank[r]) :
            InvalidLocElemInd(r, RequestOf(sourceRank[r][i], r))

(* Rank r lacks a node of an element it packs in the ownership round. *)
OwnershipNodeMissing(r) ==
  \E dest \in sendToRank(r) : geometry.lostNode \in Range(PackNodeIDs(r, dest))
(* Rank r lacks a node of an element a request buffer asks for. *)
AnswerNodeMissing(r, req) ==
  /\ ~InvalidLocElemInd(r, req)
  /\ \E j \in 1 .. Len(AnswerNodeIDs(r, req)) :
       AnswerNodeIDs(r, req)[j].long0 = geometry.lostNode

(* C19: when a rank packs coordinates, in the ownership round or in the    *)
(* answers of the halo round, and a node ID is not in its node lookup, the *)
(* step of the rank aborts the run: the rank does not advance, no          *)
(* coordinates are stored for the buffers, no message is sent by the step, *)
(* and no message is sent in any step after an abort.                      *)
C19_MissingNodeAborts ==
  [][/\ \A r \in Ranks :
          (/\ ~aborted
           /\ pc[r] = "start"
           /\ OwnershipNodeMissing(r)
           /\ (pc'[r] # pc[r] \/ aborted'))
          => /\ aborted'
             /\ pc'[r] = pc[r]
             /\ doubleSendBuf' = doubleSendBuf
             /\ network' = network
     /\ \A r \in Ranks : \A i \in 1 .. Len(longRecvBuf[r]) :
          (/\ ~aborted
           /\ pc[r] = "recvReq"
           /\ longRecvBuf'[r] # longRecvBuf[r]
           /\ AnswerNodeMissing(r, longRecvBuf[r][i]))
          => /\ aborted'
             /\ pc'[r] = pc[r]
             /\ Len(doubleSendBuf'[r]) >= i => doubleSendBuf'[r][i] = <<>>
             /\ HAVE_MPI => \A k \in 1 .. 3 :
                  LET c == <<r, sourceRank[r][i], sourceRank[r][i] + k>>
                  IN  network'[c] = network[c]
     /\ aborted => network' = network]_vars
(* The run was aborted by a rank that lacks a node of its elements, while  *)
(* another rank had sent its ownership buffers.                             *)
C19_Witness ==
  /\ aborted
  /\ \E r \in Ranks :
       /\ pc[r] = "start"
       /\ OwnershipNodeMissing(r)
       /\ doubleSendBuf[r] = <<>>
       /\ \A c \in Channels : c[1] = r => network[c] = <<>>
  /\ \E q \in Ranks : pc[q] = "recv1" /\ ~OwnershipNodeMissing(q)

(* C20: a lookup that misses its key during the translation to local       *)
(* indices (node of a volume element, node of a boundary face, owning      *)
(* element of a boundary face) aborts the run: a rank that missed a key    *)
(* has stopped the run and has not gone on with a stored index.            *)
C20_MissIsFatal ==
  \A r \in Ranks : notFound[r] # {} => (aborted /\ ~Constructed(r))
(* A rank has completed the constructor although the node of a boundary    *)
(* face was not in its point map.                                           *)
C20_Witness ==
  \E r \in Ranks :
    /\ ~aborted
    /\ Constructed(r)
    /\ Long2(2 * nCol, 0) \in notFound[r]
    /\ \E m \in 1 .. Len(boundaries[r]) : \E i \in 1 .. Len(boundaries[r][m]) :
         \E j \in 1 .. Len(boundaries[r][m][i].nodeIDsGrid) :
           boundaries[r][m][i].nodeIDsGrid[j] \in EndIteratorValues

(* C21: SetFaces builds nothing and never returns. No step of a rank that  *)
(* is at the call or inside it changes the mesh or the schedule of any     *)
(* rank, a rank inside SetFaces stays there, with message passing the run  *)
(* is only aborted out of SetFaces when every rank has entered it, and     *)
(* when every rank has entered it the abort is the step that follows.      *)
C21_SetFacesAborts ==
  /\ [][\A r \in Ranks :
          /\ (Stage(pc[r]) >= Stage("done") /\ (pc'[r] # pc[r] \/ aborted' # aborted))
               => (meshVars' = meshVars /\ schedVars' = schedVars /\ network' = network)
          /\ pc[r] = "setFaces" => pc'[r] = "setFaces"
          /\ (HAVE_MPI /\ AllReached("done") /\ ~aborted /\ aborted')
               => AllReached("setFaces")]_vars
  /\ [](\A r \in Ranks :
          (pc[r] = "setFaces" /\ AllReached("setFaces") /\ HAVE_MPI /\ ~aborted)
             => ENABLED SetFacesAbort(r))
(* Two ranks with halos of each other were stopped in SetFaces. *)
C21_Witness ==
  /\ HAVE_MPI
  /\ aborted
  /\ nRank = NRank
  /\ \A r \in Ranks : pc[r] = "setFaces" /\ DOFsSend[r] # <<>> /\ volElem[r] # <<>>

(* No rank of the source partitioning is empty. *)
NoEmptyRank == \A q \in Ranks : npoint_procs(q) > 0
(* On tables without empty rank the owner search names the owner. *)
OwnerSearchWithoutEmptyRank ==
  NoEmptyRank =>
    \A r \in Ranks : \A i \in 1 .. Len(haloElements[r]) :
      HaloRank(haloElements[r][i].long0) = SourceRank(haloElements[r][i].long0)

(* C22: for every halo descriptor a rank holds, the rank the owner search  *)
(* names for its global element ID g, to which the request is sent, is the *)
(* rank r with starting_node[r] <= g < starting_node[r + 1], also when     *)
(* ranks of the table hold no element.                                      *)
C22_OwnerSearch ==
  \A r \in Ranks : \A i \in 1 .. Len(haloElements[r]) :
    LET g == haloElements[r][i].long0
    IN  /\ HaloRank(g) = SourceRank(g)
        /\ Stage(pc[r]) >= Stage("recvReq") => SourceRank(g) \in DOMAIN rankToIndCommBuf[r]
(* A rank has sent the request for a halo to a rank that holds no element. *)
C22_Witness ==
  \E r \in Ranks : \E i \in 1 .. Len(haloElements[r]) :
    LET g == haloElements[r][i].long0
    IN  /\ HAVE_MPI
        /\ pc[r] = "recvReq"
        /\ HaloRank(g) # SourceRank(g)
        /\ npoint_procs(HaloRank(g)) = 0
        /\ HaloRank(g) \in DOMAIN rankToIndCommBuf[r]

(* Halo point i of hp is dropped by the nonperiodic pass: it is nonperiodic *)
(* and the local point list own holds its global ID with periodic index -1. *)
DroppedHaloPoint(hp, own, i) ==
  /\ hp[i].periodIndexToDonor = -1
  /\ \E k \in 1 .. Len(own) :
       own[k].globalID = hp[i].globalID /\ own[k].periodIndexToDonor = -1

(* C23: in the pass over the sorted, deduplicated halo points every         *)
(* nonperiodic halo point precedes every periodic one and so is visited; a  *)
(* halo point is dropped exactly when it is nonperiodic and the local point *)
(* list already holds its global ID with periodic index -1; every other     *)
(* halo point survives the invalidation, the second sort and the            *)
(* truncation; and every surviving nonperiodic point is appended to the     *)
(* point list exactly once.                                                 *)
C23_NonPeriodicPass ==
  \A r \in Ranks :
    BuilderReady(r) =>
      LET b == BuiltHalos(r, Indeterminate)
          hp == b.received
          own == meshPoints[r]
          kept == {i \in 1 .. Len(hp) : ~DroppedHaloPoint(hp, own, i)}
          keptNonPer == {i \in kept : hp[i].periodIndexToDonor = -1}
      IN  /\ \A i, j \in 1 .. Len(hp) :
               (hp[i].periodIndexToDonor = -1 /\ hp[j].periodIndexToDonor # -1) => i < j
          /\ NonPeriodicPrefix(hp) =
               Cardinality({i \in 1 .. Len(hp) : hp[i].periodIndexToDonor = -1})
          /\ Len(b.haloPoints) = Cardinality(kept)
          /\ \A i \in kept :
               Cardinality({k \in 1 .. Len(b.haloPoints) : b.haloPoints[k] = hp[i]}) = 1
          /\ Len(b.appended) = Len(own) + Cardinality(keptNonPer)
          /\ SubSeq(b.appended, 1, Len(own)) = own
          /\ \A i \in keptNonPer :
               Cardinality({k \in 1 .. Len(b.appended) :
                              PointEq(b.appended[k], hp[i])}) = 1
C23_Witness ==
  \E r \in Ranks :
    /\ BuilderReady(r)
    /\ LET hp == BuiltHalos(r, Indeterminate).received
       IN  \E i, j, k \in 1 .. Len(hp) :
             /\ DroppedHaloPoint(hp, meshPoints[r], i)
             /\ hp[j].periodIndexToDonor = -1
             /\ ~DroppedHaloPoint(hp, meshPoints[r], j)
             /\ hp[k].periodIndexToDonor # -1

(* The coordinates of halo point k of the matching loop after the           *)
(* transformation from the donor, and the object that is searched for.      *)
MovedCoor(k) ==
  FromDonor(periodicLoop.haloPoints[k].coor,
            periodicLoop.haloPoints[k].periodIndexToDonor)
SearchedPoint(k) == PointCompare(ULONG_MAX, LargeTol, MovedCoor(k))

(* The boundary points within their matching tolerance of coordinates q in  *)
(* every coordinate (positions in pointsBoundary).                          *)
NearBoundaryPoints(q) ==
  {n \in 1 .. Len(periodicLoop.pointsBoundary) :
     \A l \in 1 .. nDim :
       Abs(periodicLoop.pointsBoundary[n].coor[l] - q[l])
         <= periodicLoop.pointsBoundary[n].tolForMatching}
NearNodes(q) == {periodicLoop.pointsBoundary[n].nodeID : n \in NearBoundaryPoints(q)}

(* C24: for each periodic halo point, if some boundary point of the marker  *)
(* lies within the matching tolerance of the transformed coordinates in     *)
(* every coordinate, the point array does not grow and the key (global ID,  *)
(* periodic index + 1) is mapped to the index of a boundary point within    *)
(* tolerance; otherwise exactly one point is appended and the key is mapped *)
(* to the index of the appended point.                                      *)
C24_PeriodicMatch ==
  [][MatchNextHaloPoint =>
       LET k == periodicLoop.i + 1
           key == PointKey(periodicLoop.haloPoints[k])
           points == periodicLoop.meshPoints
       IN  /\ key \in DOMAIN periodicLoop'.mapGlobalPointIDToInd
           /\ IF NearBoundaryPoints(MovedCoor(k)) # {}
              THEN /\ periodicLoop'.meshPoints = points
                   /\ periodicLoop'.mapGlobalPointIDToInd[key] \in NearNodes(MovedCoor(k))
              ELSE /\ Len(periodicLoop'.meshPoints) = Len(points) + 1
                   /\ SubSeq(periodicLoop'.meshPoints, 1, Len(points)) = points
                   /\ periodicLoop'.mapGlobalPointIDToInd[key] = Len(points)]_vars
(* A halo point with a boundary point within tolerance has been appended.  *)
C24_Witness ==
  /\ periodicLoop.stage = "sorted"
  /\ \E k \in 1 .. periodicLoop.i :
       /\ NearBoundaryPoints(MovedCoor(k)) # {}
       /\ periodicLoop.mapGlobalPointIDToInd[PointKey(periodicLoop.haloPoints[k])]
            >= Len(periodicLoop.pointsBoundary)

(* What the search does find: a halo point mapped to a boundary node is     *)
(* within the tolerance of that node, and a halo point with no boundary     *)
(* point within tolerance is appended.                                      *)
MatchedWithinTolerance ==
  \A k \in 1 .. periodicLoop.i :
    LET ind == periodicLoop.mapGlobalPointIDToInd[PointKey(periodicLoop.haloPoints[k])]
    IN  /\ ind < Len(periodicLoop.pointsBoundary) => ind \in NearNodes(MovedCoor(k))
        /\ NearBoundaryPoints(MovedCoor(k)) = {} => ind >= Len(periodicLoop.pointsBoundary)

(* The sets A (pointsBoundary) and B (haloPoints) of C25: two points of A   *)
(* differ by more than the larger of their tolerances in every coordinate,  *)
(* and every point of B is within tolerance of exactly one point of A.      *)
MatchingSets ==
  /\ \A m, n \in 1 .. Len(periodicLoop.pointsBoundary) :
       m # n => \A l \in 1 .. nDim :
                  Abs(periodicLoop.pointsBoundary[m].coor[l]
                      - periodicLoop.pointsBoundary[n].coor[l])
                    > Max(periodicLoop.pointsBoundary[m].tolForMatching,
                          periodicLoop.pointsBoundary[n].tolForMatching)
  /\ \A k \in 1 .. Len(periodicLoop.haloPoints) :
       Cardinality(NearBoundaryPoints(MovedCoor(k))) = 1

Reverse(s) == [k \in 1 .. Len(s) |-> s[Len(s) + 1 - k]]

(* C25: when the boundary points are pairwise farther apart than the        *)
(* tolerance and every halo point is within tolerance of exactly one of     *)
(* them, every halo point is matched to that boundary point, no point is    *)
(* created, and the halo points taken in the opposite order give the same   *)
(* number of matches and the same map.                                      *)
C25_MatchingDeterminism ==
  (periodicLoop.stage = "sorted" /\ periodicLoop.i = Len(periodicLoop.haloPoints)
   /\ MatchingSets) =>
    LET pb == periodicLoop.pointsBoundary
        hp == periodicLoop.haloPoints
        points0 == SubSeq(periodicLoop.meshPoints, 1, Len(pb))
        other == MatchHaloPoints(Reverse(hp), 1, Len(hp) + 1, pb, points0,
                                 PointMap(points0))
    IN  /\ \A k \in 1 .. Len(hp) :
             {periodicLoop.mapGlobalPointIDToInd[PointKey(hp[k])]} = NearNodes(MovedCoor(k))
        /\ Len(periodicLoop.meshPoints) = Len(pb)
        /\ Len(other.points) = Len(periodicLoop.meshPoints)
        /\ other.map = periodicLoop.mapGlobalPointIDToInd
(* Sets as C25 describes them, and a point was created all the same. *)
C25_Witness ==
  /\ periodicLoop.stage = "sorted"
  /\ periodicLoop.i = Len(periodicLoop.haloPoints)
  /\ MatchingSets
  /\ Len(periodicLoop.pointsBoundary) = MaxBoundary
  /\ Len(periodicLoop.meshPoints) > Len(periodicLoop.pointsBoundary)

(* The points the matching loop compares so far. *)
ComparedPoints ==
  Range(periodicLoop.pointsBoundary) \cup {SearchedPoint(k) : k \in 1 .. periodicLoop.i}

(* The coordinates in which a and b differ by more than the smaller of      *)
(* their tolerances.                                                        *)
DifferingCoors(a, b) ==
  {l \in 1 .. nDim :
     Abs(a.coor[l] - b.coor[l]) > Min(a.tolForMatching, b.tolForMatching)}

(* C26: for two points of the same dimension neither a < b nor b < a holds  *)
(* exactly when every coordinate of a differs from that of b by at most the *)
(* smaller of the two tolerances; otherwise exactly one of a < b and b < a  *)
(* holds, decided by the first coordinate whose difference exceeds that     *)
(* tolerance. The relation is irreflexive and asymmetric.                   *)
C26_ToleranceOrder ==
  \A a, b \in ComparedPoints :
    /\ (~PointCompareLess(a, b) /\ ~PointCompareLess(b, a)) <=> DifferingCoors(a, b) = {}
    /\ DifferingCoors(a, b) # {} =>
         LET l == CHOOSE c \in DifferingCoors(a, b) :
                    \A d \in DifferingCoors(a, b) : c <= d
         IN  /\ PointCompareLess(a, b) <=> a.coor[l] < b.coor[l]
             /\ PointCompareLess(b, a) <=> b.coor[l] < a.coor[l]
             /\ PointCompareLess(a, b) # PointCompareLess(b, a)
    /\ ~PointCompareLess(a, a)
    /\ PointCompareLess(a, b) => ~PointCompareLess(b, a)
(* Two boundary points that differ within tolerance, and two that differ    *)
(* within tolerance in the first coordinate and are ordered by the second.  *)
C26_Witness ==
  \E a, b, c, d \in ComparedPoints :
    /\ a.coor # b.coor
    /\ DifferingCoors(a, b) = {}
    /\ c.coor[1] > d.coor[1]
    /\ PointCompareLess(c, d)
    /\ c.tolForMatching # LargeTol
    /\ d.tolForMatching # LargeTol

(* Receive slot i of rank r holds the three buffers b. *)
SlotHolds(r, i, b) ==
  /\ shortRecvBuf[r][i] = b.short
  /\ longRecvBuf[r][i] = b.long
  /\ doubleRecvBuf[r][i] = b.double

(* The answer of rank q to the halo request of rank r. *)
AnswerFor(q, r) ==
  AnswerBuffers(q, PackRequests(haloElements[r], Len(globalElemID[r]), q))

(* C27: in the receive loops over three channels (ownership transfer and    *)
(* halo response) the short, long and double buffer stored in one receive   *)
(* slot were sent by the same source rank in the same round: the slot holds *)
(* the three buffers one rank packed for this rank in that round.           *)
C27_SlotOfOneSource ==
  \A r \in Ranks :
    /\ (HAVE_MPI /\ pc[r] \in {"recv1", "barrier1"}) =>
         /\ Len(longRecvBuf[r]) = Len(shortRecvBuf[r])
         /\ Len(doubleRecvBuf[r]) = Len(shortRecvBuf[r])
         /\ \A i \in 1 .. Len(shortRecvBuf[r]) :
              \E q \in Ranks : r \in sendToRank(q) /\ SlotHolds(r, i, PackBuffers(q, r))
    /\ (HAVE_MPI /\ pc[r] \in {"recvResp", "barrier2"}
        /\ \A q \in Ranks : Stage(pc[q]) <= Stage("barrier2")) =>
         /\ Len(longRecvBuf[r]) = Len(shortRecvBuf[r])
         /\ Len(doubleRecvBuf[r]) = Len(shortRecvBuf[r])
         /\ \A i \in 1 .. Len(shortRecvBuf[r]) :
              \E q \in DOMAIN rankToIndCommBuf[r] : SlotHolds(r, i, AnswerFor(q, r))
(* A rank has received the ownership buffers of rank 1 before those of     *)
(* rank 0, and they differ.                                                 *)
C27_Witness ==
  \E r \in Ranks :
    /\ HAVE_MPI
    /\ pc[r] = "barrier1"
    /\ Len(shortRecvBuf[r]) = NRank
    /\ SlotHolds(r, 1, PackBuffers(1, r))
    /\ SlotHolds(r, NRank, PackBuffers(0, r))
    /\ PackBuffers(0, r).long # PackBuffers(1, r).long

(* The buffers rank r hands to its non-blocking sends. *)
SendBuffersOf(r) == <<shortSendBuf[r], longSendBuf[r], doubleSendBuf[r], longBuf[r]>>

(* A message of rank r has not been received: without buffering in the     *)
(* library its send is not complete and no wait-all covering it returns.    *)
SendOutstanding(r) == \E d \in Ranks : \E t \in Tags : network[<<r, d, t>>] # <<>>

(* C28: no send buffer handed to a non-blocking send is modified, resized   *)
(* or released before the wait-all covering that send has returned, in the  *)
(* ownership transfer, the halo request, the halo response and the schedule *)
(* request: a step that changes a send buffer of a rank is taken only when  *)
(* every send of that rank is complete.                                     *)
C28_SendBuffersKept ==
  [][\A r \in Ranks :
       (HAVE_MPI /\ ~mpiEager /\ SendBuffersOf(r)' # SendBuffersOf(r))
         => ~SendOutstanding(r)]_vars
(* Without buffering in the library, a rank has replaced its request        *)
(* buffers by its answers while another rank has yet to answer.             *)
C28_Witness ==
  \E r, q \in Ranks :
    /\ HAVE_MPI
    /\ ~mpiEager
    /\ pc[r] = "recvResp"
    /\ pc[q] = "recvReq"
    /\ q \in DOMAIN rankToIndCommBuf[r]
    /\ longSendBuf[r] # <<>>
    /\ longSendBuf[r][1] # <<>>

(* In this step rank r sends, or receives, a message of the given round. *)
SendsRound(r, round) ==
  \E d \in Ranks : \E t \in Tags :
    /\ Len(network'[<<r, d, t>>]) > Len(network[<<r, d, t>>])
    /\ network'[<<r, d, t>>][Len(network'[<<r, d, t>>])].round = round
ReceivesRound(r, round) ==
  \E q \in Ranks : \E t \in Tags :
    /\ Len(network'[<<q, r, t>>]) < Len(network[<<q, r, t>>])
    /\ Head(network[<<q, r, t>>]).round = round

(* Every rank has left the receive loop of the halo requests. *)
RequestLoopsDone ==
  \A q \in Ranks :
    \/ Stage(pc[q]) > Stage("recvReq")
    \/ pc[q] = "recvReq" /\ Len(longRecvBuf[q]) = nRankRecv[q]

(* The loops of the ownership transfer and of the halo response are         *)
(* followed by a barrier: a rank sends or receives a halo request only when *)
(* every rank has completed the ownership transfer, and a schedule request  *)
(* only when every rank has completed the halo response.                    *)
BarrierAfterOwnershipAndResponse ==
  [][\A r \in Ranks :
       /\ (SendsRound(r, "haloRequest") \/ ReceivesRound(r, "haloRequest"))
            => \A q \in Ranks : Stage(pc[q]) >= Stage("barrier1")
       /\ (SendsRound(r, "schedule") \/ ReceivesRound(r, "schedule"))
            => \A q \in Ranks : Stage(pc[q]) >= Stage("barrier2")]_vars

(* C29: every receive loop that probes with a wildcard source (ownership    *)
(* transfer, halo request, halo response) is followed on the same rank by a *)
(* global barrier before that rank sends or receives a message of the next  *)
(* exchange: when a rank sends or receives a message of the next exchange,  *)
(* every rank has left the receive loop of the exchange before it.          *)
C29_BarrierAfterWildcard ==
  [][\A r \in Ranks :
       /\ (SendsRound(r, "haloRequest") \/ ReceivesRound(r, "haloRequest"))
            => \A q \in Ranks : Stage(pc[q]) >= Stage("barrier1")
       /\ (SendsRound(r, "haloResponse") \/ ReceivesRound(r, "haloResponse"))
            => RequestLoopsDone
       /\ (SendsRound(r, "schedule") \/ ReceivesRound(r, "schedule"))
            => \A q \in Ranks : Stage(pc[q]) >= Stage("barrier2")]_vars
(* A rank has sent its answers while another rank still waits for a halo   *)
(* request.                                                                 *)
C29_Witness ==
  \E r, q \in Ranks :
    /\ HAVE_MPI
    /\ pc[r] = "recvResp"
    /\ \E d \in Ranks : network[<<r, d, d + 1>>] # <<>>
    /\ pc[q] = "recvReq"
    /\ Len(longRecvBuf[q]) < nRankRecv[q]

(* The element e a receiver stored has the data of element g of the input. *)
SameElement(e, g) ==
  /\ e.VTK_Type = GetVTK_Type(g)
  /\ e.nPolyGrid = GetNPolyGrid(g)
  /\ e.nPolySol = GetNPolySol(g)
  /\ e.nDOFsGrid = GetNDOFsGrid(g)
  /\ e.nDOFsSol = GetNDOFsSol(g)
  /\ e.nFaces = GetnFaces(g)
  /\ e.JacIsConsideredConstant = (GetJacobianConsideredConstant(g) # 0)
  /\ e.JacFacesIsConsideredConstant =
       [k \in 1 .. GetnFaces(g) |-> (GetJacobianConstantFace(g, k - 1) # 0)]
  /\ e.elemIDGlobal = GetGlobalElemID(g)
  /\ e.offsetDOFsSolGlobal = GetGlobalOffsetDOFsSol(g)
  /\ e.nodeIDsGrid = [j \in 1 .. GetNDOFsGrid(g) |-> GetNode(g, j - 1)]

(* The rank whose ownership buffers receive slot i of rank r holds. *)
SourceOfSlot(r, i) ==
  CHOOSE q \in Ranks : r \in sendToRank(q) /\ longRecvBuf[r][i] = PackBuffers(q, r).long

(* C30: pack followed by unpack is lossless for the ownership transfer: for *)
(* every buffer triple the cursors of the receiver end exactly at the ends  *)
(* of the short, long and double buffer; every element the receiver stores  *)
(* has the topology, degrees, DOF counts, face count, jacobian flags,       *)
(* global ID, global DOF offset and ordered node IDs of the source element; *)
(* and the three walks over the buffer (ID collection, halo analysis, copy) *)
(* agree on where each element starts.                                      *)
C30_PackUnpackLossless ==
  \A r \in Ranks :
    (pc[r] = "barrier1" /\ ~aborted) =>
      \A i \in 1 .. Len(shortRecvBuf[r]) :
        LET sb == shortRecvBuf[r][i]
            lb == longRecvBuf[r][i]
            db == doubleRecvBuf[r][i]
            n == At(lb, 0)
            cp == CopyBuffer(sb, lb, db, r)
            elems == ElemsFor(SourceOfSlot(r, i), r)
            ids == CollectElemIDs(shortRecvBuf[r], longRecvBuf[r])
            start == [k \in 1 .. n + 1 |-> CopyElems(sb, lb, r, k - 1, 0, 1)]
        IN  /\ cp.indS = Len(sb)
            /\ cp.indL = Len(lb)
            /\ cp.indD = Len(db)
            /\ n = Len(elems)
            /\ Len(cp.elems) = n
            /\ \A k \in 1 .. n : SameElement(cp.elems[k], elems[k])
            /\ IDWalk(sb, lb, n, 0, 1).ids = [k \in 1 .. n |-> GetGlobalElemID(elems[k])]
            /\ \A k \in 1 .. n + 1 :
                 /\ IDWalk(sb, lb, k - 1, 0, 1).indS = start[k].indS
                 /\ IDWalk(sb, lb, k - 1, 0, 1).indL = start[k].indL
            /\ HaloWalk(sb, lb, ids, n, 0, 1) =
                 Concat([k \in 1 .. n |->
                           HaloWalk(sb, lb, ids, 1, start[k].indS, start[k].indL)])
(* A rank holds a buffer of another rank with two elements, nodes and a    *)
(* boundary face.                                                           *)
C30_Witness ==
  \E r \in Ranks : \E i \in 1 .. Len(shortRecvBuf[r]) :
    /\ pc[r] = "barrier1"
    /\ ~aborted
    /\ HAVE_MPI
    /\ SourceOfSlot(r, i) # r
    /\ At(longRecvBuf[r][i], 0) >= 2
    /\ doubleRecvBuf[r][i] # <<>>
    /\ \E c \in 1 .. Len(BufBoundCounts(shortRecvBuf[r][i], longRecvBuf[r][i])) :
         BufBoundCounts(shortRecvBuf[r][i], longRecvBuf[r][i])[c] > 0

(* The node-ID list stored in long buffer lb behind the cursor indL. *)
ListedNodeIDs(lb, indL) == [j \in 1 .. At(lb, indL) |-> At(lb, indL + j)]

(* The coordinates of the nodes of a list, nDim of each, in order. *)
CoordsOf(ids) ==
  [k \in 1 .. nDim * Len(ids) |->
     GetCoord(ids[((k - 1) \div nDim) + 1], (k - 1) % nDim)]

(* The rank whose request buffer rank r answers in send slot i. *)
RequesterOfSlot(r, i) == IF HAVE_MPI THEN sourceRank[r][i] ELSE r

(* The (element, periodic index) pairs rank q requests from rank r. *)
RequestedFrom(q, r) ==
  {<<haloElements[q][k].long0, haloElements[q][k].long1 - 1>> :
     k \in {j \in 1 .. Len(haloElements[q]) : HaloRank(haloElements[q][j].long0) = r}}

(* C31: in each send buffer of the ownership transfer the node-ID list is   *)
(* strictly increasing and is exactly the set of distinct node IDs          *)
(* referenced by the elements packed for that destination, and the          *)
(* coordinate buffer holds exactly nDim values per listed node in the same  *)
(* order; the same holds for the (node ID, periodic index) list of each     *)
(* halo response.                                                            *)
C31_NodeListsDeduplicated ==
  \A r \in Ranks :
    /\ pc[r] \in {"recv1", "barrier1"} =>
         \A i \in 1 .. Len(longSendBuf[r]) :
           LET sb == shortSendBuf[r][i]
               lb == longSendBuf[r][i]
               db == doubleSendBuf[r][i]
               dest == RankOfInd(rankToIndCommBuf[r], i - 1)
               w == IDWalk(sb, lb, At(lb, 0), 0, 1)
               ids == ListedNodeIDs(lb, w.indL)
           IN  /\ \A j \in 1 .. Len(ids) - 1 : ids[j] < ids[j + 1]
               /\ Range(ids) =
                    {GetNode(g, k - 1) : g \in Range(ElemsFor(r, dest)),
                                         k \in 1 .. GetNDOFsGrid(0)}
               /\ db = CoordsOf(ids)
    /\ pc[r] \in {"recvResp", "barrier2"} =>
         \A i \in 1 .. Len(longSendBuf[r]) :
           LET sb == shortSendBuf[r][i]
               lb == longSendBuf[r][i]
               db == doubleSendBuf[r][i]
               he == HaloElems(sb, lb, At(lb, 0), 0, 1)
               ids == ListedNodeIDs(lb, he.indL)
               pers == [j \in 1 .. Len(ids) |-> At(sb, he.indS + j - 1)]
           IN  /\ Len(sb) = he.indS + Len(ids)
               /\ \A j \in 1 .. Len(ids) - 1 :
                    \/ ids[j] < ids[j + 1]
                    \/ ids[j] = ids[j + 1] /\ pers[j] < pers[j + 1]
               /\ {<<ids[j], pers[j]>> : j \in 1 .. Len(ids)} =
                    {<<GetNode(e[1], k - 1), e[2]>> :
                       e \in RequestedFrom(RequesterOfSlot(r, i), r),
                       k \in 1 .. GetNDOFsGrid(0)}
               /\ db = CoordsOf(ids)
(* A rank has packed two elements that share nodes for one destination, and *)
(* a rank has answered a request that names one node under two periodic     *)
(* indices.                                                                  *)
C31_Witness ==
  /\ \E q \in Ranks : \E dest \in Ranks :
       /\ Len(ElemsFor(q, dest)) >= 2
       /\ Len(PackNodeIDs(q, dest)) < 4 * Len(ElemsFor(q, dest))
  /\ \E r \in Ranks :
       /\ pc[r] \in {"recvResp", "barrier2"}
       /\ \E i \in 1 .. Len(longSendBuf[r]) :
            LET he == HaloElems(shortSendBuf[r][i], longSendBuf[r][i],
                                At(longSendBuf[r][i], 0), 0, 1)
                ids == ListedNodeIDs(longSendBuf[r][i], he.indL)
            IN  /\ RequesterOfSlot(r, i) # r
                /\ \E j \in 1 .. Len(ids) - 1 : ids[j] = ids[j + 1]

(* The places (rank, position) where face k of marker m of the source mesh *)
(* is stored under marker m.                                                *)
HoldersOf(m, k) ==
  {h \in UNION {{<<r, i>> : i \in 1 .. Len(boundaries[r][m])} : r \in Ranks} :
     boundaries[h[1]][m][h[2]].boundElemIDGlobal = GlobalBound(m - 1)[k].GlobalElemID}

(* C32: every boundary face of the source mesh ends up in exactly one       *)
(* rank's boundary list, under the same marker index, on the rank that owns *)
(* the face's domain element; on each rank the stored per-marker count      *)
(* equals the length of that marker's face list, and after translation each *)
(* face's owning-element index is the array index of that owned element.    *)
C32_BoundaryFaces ==
  /\ \A r \in Ranks : Assembled(r) =>
       /\ Len(boundaries[r]) = nMarker
       /\ \A m \in 1 .. nMarker : nElem_Bound[r][m] = Len(boundaries[r][m])
  /\ (\A q \in Ranks : Assembled(q)) =>
       \A m \in 1 .. nMarker :
         /\ SumSeq([q \in 1 .. nRank |-> Len(boundaries[q - 1][m])])
              = Len(GlobalBound(m - 1))
         /\ \A k \in 1 .. Len(GlobalBound(m - 1)) :
              LET f == GlobalBound(m - 1)[k]
              IN  /\ Cardinality(HoldersOf(m, k)) = 1
                  /\ \A h \in HoldersOf(m, k) :
                       LET r == h[1]
                           s == boundaries[r][m][h[2]]
                       IN  /\ r = GetColor(f.DomainElement)
                           /\ f.DomainElement \in Owned(r)
                           /\ s.VTK_Type = f.VTK_Type
                           /\ s.nPolyGrid = f.nPolyGrid
                           /\ s.nDOFsGrid = f.nDOFsGrid
                           /\ IF Constructed(r)
                              THEN /\ s.volElemID \in 0 .. (Len(globalElemID[r]) - 1)
                                   /\ At(volElem[r], s.volElemID).elemIsOwned
                                   /\ At(volElem[r], s.volElemID).elemIDGlobal
                                        = f.DomainElement
                              ELSE /\ s.volElemID = f.DomainElement
                                   /\ s.nodeIDsGrid = f.nodes
(* With message passing, the walls are split over two ranks, and a rank     *)
(* holds a face that another rank sent it and whose element index differs   *)
(* from the global ID of the element.                                       *)
C32_Witness ==
  /\ HAVE_MPI
  /\ \A q \in Ranks : Constructed(q) /\ boundaries[q][nMarker] # <<>>
  /\ \E r \in Ranks : \E i \in 1 .. Len(boundaries[r][nMarker]) :
       LET s == boundaries[r][nMarker][i]
           g == At(volElem[r], s.volElemID).elemIDGlobal
       IN  /\ SourceRank(g) # r
           /\ s.volElemID # g

(* Rank r builds its answers in this step. *)
AnswersNow(r) == pc[r] = "recvReq" /\ requestSizes'[r] # requestSizes[r]

(* The complete entries of a request buffer. *)
CompleteEntries(req) == SubSeq(req, 1, 3 * (Len(req) \div 3))

(* Every request buffer that is sent holds whole entries only. *)
RequestsSentWhole ==
  \A c \in Channels : \A k \in 1 .. Len(network[c]) :
    network[c][k].round = "haloRequest" => Len(network[c][k].data) % 3 = 0

(* The answer is built from the complete entries of a request buffer: what  *)
(* follows the last complete entry is not read.                             *)
PartialEntryNotRead ==
  [][\A r \in Ranks :
       (AnswersNow(r) /\ ~aborted') =>
         \A i \in 1 .. Len(longRecvBuf[r]) :
           /\ At(longSendBuf'[r][i], 0) = Len(longRecvBuf[r][i]) \div 3
           /\ longSendBuf'[r][i] = AnswerBuffers(r, CompleteEntries(longRecvBuf[r][i])).long
           /\ shortSendBuf'[r][i] = AnswerBuffers(r, CompleteEntries(longRecvBuf[r][i])).short]_vars

DedupPoints(points) == UniqueBy(SortBy(points, PointLess), PointEq)
DedupHalos(halos) == UniqueBy(SortBy(halos, Long2Less), Long2Eq)

(* The faces of the owned elements of rank r whose neighbour is halo h. *)
FacesTo(r, h) ==
  {f \in Owned(r) \X (0 .. 3) :
     /\ GetNeighbor_Elements(f[1], f[2]) = h.long0
     /\ GetPeriodicIndex(f[1], f[2]) + 1 = h.long1}

(* C34: sort-then-unique deduplication of the point list (by periodic index *)
(* and global ID) and of the halo descriptor list is idempotent: applied to *)
(* the deduplicated list a rank holds, it leaves size and content           *)
(* unchanged.                                                                *)
C34_DedupIdempotent ==
  \A r \in Ranks :
    /\ Assembled(r) =>
         /\ Len(DedupHalos(haloElements[r])) = Len(haloElements[r])
         /\ DedupHalos(haloElements[r]) = haloElements[r]
         /\ DedupHalos(DedupHalos(haloElements[r])) = DedupHalos(haloElements[r])
    /\ (Assembled(r) /\ ~Constructed(r)) =>
         /\ Len(DedupPoints(meshPoints[r])) = Len(meshPoints[r])
         /\ DedupPoints(meshPoints[r]) = meshPoints[r]
         /\ DedupPoints(DedupPoints(meshPoints[r])) = DedupPoints(meshPoints[r])
    /\ (pc[r] = "barrier2" /\ ~aborted) =>
         LET received == BuiltHalos(r, Indeterminate).received
         IN  DedupPoints(received) = received
(* A rank holds a deduplicated point list and a list of halo descriptors    *)
(* from which a double entity was removed: two faces of its elements lead   *)
(* to the same halo.                                                        *)
C34_Witness ==
  \E r \in Ranks :
    /\ Assembled(r)
    /\ ~Constructed(r)
    /\ Len(meshPoints[r]) >= 2
    /\ \E i \in 1 .. Len(haloElements[r]) :
         Cardinality(FacesTo(r, haloElements[r][i])) >= 2

(* The list of surface elements is sorted as sort() leaves it. *)
SurfSorted(surfElem) ==
  \A i \in 1 .. Len(surfElem) - 1 : ~SurfLess(surfElem[i + 1], surfElem[i])

(* C35: the global-to-local element map is a bijection between the owned    *)
(* global element IDs of the rank and the indices 0 .. owned-1 that is      *)
(* strictly increasing in the global ID, so the owned part of the element   *)
(* array is sorted by global element ID and a boundary list sorted by       *)
(* global owning-element ID before translation is still sorted by           *)
(* owning-element index after translation.                                   *)
C35_ElemMapMonotone ==
  \A r \in Ranks : Assembled(r) =>
    LET map == mapGlobalElemIDToInd(globalElemID[r])
        nVolElemOwned == Len(globalElemID[r])
    IN  /\ DOMAIN map = Owned(r)
        /\ {map[g] : g \in DOMAIN map} = 0 .. (nVolElemOwned - 1)
        /\ \A g, h \in DOMAIN map : g < h => map[g] < map[h]
        /\ \A g \in DOMAIN map :
             /\ At(volElem[r], map[g]).elemIsOwned
             /\ At(volElem[r], map[g]).elemIDGlobal = g
        /\ \A k \in 1 .. nVolElemOwned - 1 :
             volElem[r][k].elemIDGlobal < volElem[r][k + 1].elemIDGlobal
        /\ \A m \in 1 .. nMarker :
             /\ SurfSorted(boundaries[r][m])
             /\ \A i \in 1 .. Len(boundaries[r][m]) - 1 :
                  boundaries[r][m][i].volElemID <= boundaries[r][m][i + 1].volElemID
(* A rank has translated a boundary list with faces of two owned elements   *)
(* whose indices differ from their global IDs, and received its elements    *)
(* from two ranks.                                                          *)
C35_Witness ==
  \E r \in Ranks :
    /\ Constructed(r)
    /\ Len(globalElemID[r]) >= 2
    /\ \E g, h \in Owned(r) : SourceRank(g) # SourceRank(h)
    /\ \E i, j \in 1 .. Len(boundaries[r][nMarker]) :
         /\ boundaries[r][nMarker][i].volElemID < boundaries[r][nMarker][j].volElemID
         /\ At(volElem[r], boundaries[r][nMarker][i].volElemID).elemIDGlobal
              # boundaries[r][nMarker][i].volElemID

(* In this step rank r executes the direct copy of the ownership buffers,   *)
(* of the halo requests, of the halo responses.                             *)
SeqCopiesOwnership(r) ==
  /\ ~HAVE_MPI
  /\ pc[r] = "start"
  /\ pc'[r] = "barrier1" \/ rankToIndCommBuf'[r] # rankToIndCommBuf[r]
SeqCopiesRequest(r) ==
  /\ ~HAVE_MPI
  /\ pc[r] = "reduce2"
  /\ pc'[r] = "recvReq" \/ aborted'
SeqCopiesResponse(r) ==
  /\ ~HAVE_MPI
  /\ pc[r] = "recvReq"
  /\ pc'[r] = "barrier2" \/ aborted'
  /\ \A i \in 1 .. Len(longRecvBuf[r]) : ~AnswerBuffers(r, longRecvBuf[r][i]).aborts

(* The lists the three copies read slot 0 of and write slot 0 of have a     *)
(* slot 0.                                                                   *)
CopySlotsExist(r) ==
  /\ SeqCopiesOwnership(r) =>
       /\ Len(shortSendBuf'[r]) > 0 /\ Len(shortRecvBuf'[r]) > 0
       /\ Len(longSendBuf'[r]) > 0 /\ Len(longRecvBuf'[r]) > 0
       /\ Len(doubleSendBuf'[r]) > 0 /\ Len(doubleRecvBuf'[r]) > 0
  /\ SeqCopiesRequest(r) =>
       Len(longSendBuf'[r]) > 0 /\ Len(longRecvBuf'[r]) > 0
  /\ SeqCopiesResponse(r) =>
       /\ Len(shortSendBuf'[r]) > 0 /\ Len(shortRecvBuf'[r]) > 0
       /\ Len(longSendBuf'[r]) > 0 /\ Len(longRecvBuf'[r]) > 0
       /\ Len(doubleSendBuf'[r]) > 0 /\ Len(doubleRecvBuf'[r]) > 0

(* On a mesh with a periodic face, and in the copy of the ownership         *)
(* buffers on any mesh, every slot the copies access exists.                 *)
CopySlotsExistWithHalos ==
  [][\A r \in Ranks :
       /\ geometry.periodic => CopySlotsExist(r)
       /\ SeqCopiesOwnership(r) => CopySlotsExist(r)]_vars

(* C36: in single-rank mode every buffer-list slot read or written by the   *)
(* direct-copy exchanges exists; in particular when the mesh has no halo    *)
(* element, the halo request and halo response copies do not access slot 0  *)
(* of a buffer list that has zero slots.                                    *)
C36_CopySlotsExist ==
  [][\A r \in Ranks : CopySlotsExist(r)]_vars
(* A sequential run on a mesh without periodic face has executed the copy   *)
(* of the halo requests on lists without slots, and goes on.                *)
C36_Witness ==
  /\ ~HAVE_MPI
  /\ InputComplete
  /\ ~geometry.periodic
  /\ ~aborted
  /\ pc[0] = "recvReq"
  /\ haloElements[0] = <<>>
  /\ Len(longSendBuf[0]) = 0
  /\ Len(longRecvBuf[0]) = 0

(* The number of solution DOFs of the owned elements, and of all elements.  *)
nDOFsOwned(vol) ==
  SumSeq([i \in 1 .. Len(vol) |-> IF vol[i].elemIsOwned THEN vol[i].nDOFsSol ELSE 0])
nDOFsTotal(vol) == SumSeq([i \in 1 .. Len(vol) |-> vol[i].nDOFsSol])

(* C37: after SetSendReceive, every index in every receive list is at least *)
(* the total number of solution DOFs of the owned elements and no index     *)
(* occurs in two receive lists or twice in one, so the receive lists        *)
(* partition the halo DOF range; every index in every send list is less     *)
(* than the total number of owned solution DOFs.                            *)
C37_DOFRanges ==
  \A r \in Ranks : Scheduled(r) =>
    LET vol == volElem[r]
        recv == Concat(DOFsReceive[r])
        send == Concat(DOFsSend[r])
    IN  /\ \A k \in 1 .. Len(recv) : recv[k] >= nDOFsOwned(vol)
        /\ \A a, b \in 1 .. Len(recv) : a # b => recv[a] # recv[b]
        /\ Range(recv) = nDOFsOwned(vol) .. (nDOFsTotal(vol) - 1)
        /\ \A k \in 1 .. Len(send) : send[k] >= 0 /\ send[k] < nDOFsOwned(vol)
(* A rank has finished SetSendReceive with two neighbours, itself one of    *)
(* them, owned elements of more than one DOF, and a DOF to receive and to   *)
(* send for each neighbour.                                                 *)
C37_Witness ==
  \E r \in Ranks :
    /\ pc[r] = "done"
    /\ Len(ranksComm[r]) = NRank
    /\ nDOFsOwned(volElem[r]) > 1
    /\ \A i \in 1 .. Len(ranksComm[r]) :
         DOFsReceive[r][i] # <<>> /\ DOFsSend[r][i] # <<>>

(* The halo slots of rank r name as owner the colour of their element,      *)
(* which that rank owns.                                                     *)
HaloOwnersAreColours(r) ==
  \A i \in 1 .. Len(volElem[r]) :
    ~volElem[r][i].elemIsOwned =>
      LET q == volElem[r][i].rankOriginal
          g == volElem[r][i].elemIDGlobal
      IN  /\ g \in ElemIDs
          /\ q = GetColor(g)
          /\ g \in Owned(q)
          /\ Constructed(q) => g \in DOMAIN globalElemIDToLocalInd(volElem[q])

(* In this step rank r looks up the global element IDs it has received.     *)
LooksUpReceivedIDs(r) ==
  \/ pc[r] = "recvSched" /\ schedPos'[r] # schedPos[r]
  \/ ~HAVE_MPI /\ pc[r] = "constructed" /\ volElem[r] # <<>>

(* C38: the owner rank stored in each halo slot is the colour of the        *)
(* element (the rank that owns it after redistribution), so every global    *)
(* element ID a rank receives in SetSendReceive is found among the owned    *)
(* elements of that rank, and the abort 'This should not happen' is not     *)
(* reached once the constructor has completed.                              *)
C38_HaloOwnerIsColour ==
  [][\A r \in Ranks :
       /\ Constructed(r)' => HaloOwnersAreColours(r)'
       /\ LooksUpReceivedIDs(r) => ~aborted']_vars
(* A rank has looked up the IDs another rank sent it, among them an element *)
(* that a third party, not the owner, held in the source partitioning.      *)
C38_Witness ==
  \E r, q \in Ranks :
    /\ r # q
    /\ pc[r] = "done"
    /\ ~aborted
    /\ \E i \in 1 .. Len(ranksComm[r]) :
         /\ ranksComm[r][i] = q
         /\ DOFsSend[r][i] # <<>>
    /\ \E i \in 1 .. Len(volElem[q]) :
         /\ ~volElem[q][i].elemIsOwned
         /\ volElem[q][i].rankOriginal = r
         /\ SourceRank(volElem[q][i].elemIDGlobal) # r

(* The ranks rank r has a halo of, from the input: the colours of the       *)
(* neighbours of its elements across a periodic face or on another rank.    *)
NeighbourRanks(r) ==
  {GetColor(GetNeighbor_Elements(g, k)) :
     <<g, k>> \in {f \in ElemIDs \X (0 .. 3) :
                    /\ GetColor(f[1]) = r
                    /\ GetNeighbor_Elements(f[1], f[2]) # -1
                    /\ \/ GetPeriodicIndex(f[1], f[2]) # -1
                       \/ GetColor(GetNeighbor_Elements(f[1], f[2])) # r}}

(* The messages of SetSendReceive from rank r that wait for rank q, and     *)
(* whether rank q has received the message of rank r.                       *)
ScheduleInFlight(r, q) ==
  Cardinality({k \in 1 .. Len(network[<<r, q, q>>]) :
                 network[<<r, q, q>>][k].round = "schedule"})
ScheduleReceived(q, r) ==
  \E i \in 1 .. Len(ranksComm[q]) : i <= schedPos[q] /\ ranksComm[q][i] = r

Returned(r) == Stage(pc[r]) >= Stage("done")

(* The exchange of SetSendReceive, as far as it has come. *)
ScheduleExchange ==
  \A r \in Ranks :
    /\ ~Scheduled(r) =>
         \A q \in Ranks : ScheduleInFlight(r, q) = 0 /\ ~ScheduleReceived(q, r)
    /\ Scheduled(r) =>
         /\ Range(ranksComm[r]) = NeighbourRanks(r)
         /\ Cardinality(Range(ranksComm[r])) = Len(ranksComm[r])
         /\ schedPos[r] <= Len(ranksComm[r])
         /\ \A q \in Ranks :
              /\ HAVE_MPI =>
                   ScheduleInFlight(r, q) + (IF ScheduleReceived(q, r) THEN 1 ELSE 0)
                     = (IF q \in NeighbourRanks(r) THEN 1 ELSE 0)
              /\ q \in NeighbourRanks(r) <=> r \in NeighbourRanks(q)
    /\ (Returned(r) /\ HAVE_MPI) =>
         /\ schedPos[r] = Len(ranksComm[r])
         /\ \A q \in NeighbourRanks(r) : ScheduleReceived(r, q)
         /\ ~mpiEager => \A q \in Ranks : ScheduleInFlight(r, q) = 0

(* Every rank has completed the constructor and holds an element. *)
AllConstructed == \A r \in Ranks : Constructed(r) /\ volElem[r] # <<>>
AllReturned ==
  /\ \A r \in Ranks : Returned(r)
  /\ \A c \in Channels : network[c] = <<>>

EmptyRankEnters(r) ==
  /\ volElem[r] = <<>>
  /\ SetSendReceiveSend(r) \/ SeqSetSendReceive(r)

(* When the write to volElem[0] goes unnoticed, the neighbour list and     *)
(* both DOF lists of the rank stay empty.                                   *)
EmptyRankListsEmpty ==
  [][\A r \in Ranks :
       (EmptyRankEnters(r) /\ ~aborted') =>
         /\ volElem'[r] = <<>>
         /\ ranksComm'[r] = <<>>
         /\ DOFsSend'[r] = <<>>
         /\ DOFsReceive'[r] = <<>>]_vars

(* C40: SetSendReceive on a rank that holds zero volume elements (owned    *)
(* plus halo) performs no access to the element array, so the process goes  *)
(* on, and leaves the neighbour list and both DOF lists empty.              *)
C40_EmptyRankUntouched ==
  [][\A r \in Ranks :
       EmptyRankEnters(r) =>
         /\ ~aborted'
         /\ ranksComm'[r] = <<>>
         /\ DOFsSend'[r] = <<>>
         /\ DOFsReceive'[r] = <<>>]_vars
(* A rank without any element has died in SetSendReceive, all ranks having *)
(* completed the constructor.                                               *)
C40_Witness ==
  /\ aborted
  /\ \A q \in Ranks : Constructed(q)
  /\ \E r \in Ranks : volElem[r] = <<>> /\ pc[r] = "constructed"

====
